---- MODULE Spec2Model ----
(***************************************************************************)
(* Personal UX Genome: the trait inference engine (TraitInferenceEngine),  *)
(* the genome store (useGenomeStore) and the signal buffer (SignalCapture). *)
(*                                                                         *)
(* Numbers that the program keeps as IEEE doubles (confidence, cognitive   *)
(* load, derived metrics) are kept here as exact reduced fractions <<n,d>>,*)
(* so 0.8 is <<4,5>> and a decay step multiplies by <<19,20>>.             *)
(***************************************************************************)
EXTENDS Integers, Sequences, FiniteSets, TLC

(***************************************************************************)
(* Bounds of the model.                                                    *)
(***************************************************************************)
MaxCycles == 2      \* inference cycles in one behaviour
MaxExternal == 2    \* external store actions in one behaviour
MaxTime == 2        \* largest value of the clock
MaxEmits == 1002    \* signals emitted in one behaviour
MaxSignals == 3     \* signals emitted while the provider is mounted
MaxClockSteps == 2  \* steps of the clock while the provider is mounted
MaxSteadyCycles == 16   \* cycles on one repeated window

(***************************************************************************)
(* Exact fractions.                                                        *)
(***************************************************************************)
RECURSIVE Gcd(_, _)
Gcd(a, b) == IF b = 0 THEN a ELSE Gcd(b, a % b)

Abs(x) == IF x < 0 THEN -x ELSE x

Rat(n, d) ==
    LET g == Gcd(Abs(n), Abs(d))
    IN  IF n = 0 THEN <<0, 1>> ELSE <<n \div g, d \div g>>

Lcm(a, b) == (a \div Gcd(a, b)) * b

RAdd(a, b) ==
    LET l == Lcm(a[2], b[2])
    IN  Rat(a[1] * (l \div a[2]) + b[1] * (l \div b[2]), l)

RSub(a, b) == RAdd(a, <<-b[1], b[2]>>)

RMul(a, b) ==
    LET g1 == Gcd(Abs(a[1]), b[2])
        g2 == Gcd(Abs(b[1]), a[2])
    IN  IF a[1] = 0 \/ b[1] = 0 THEN <<0, 1>>
        ELSE <<(a[1] \div g1) * (b[1] \div g2), (a[2] \div g2) * (b[2] \div g1)>>

RLess(a, b) ==
    LET l == Lcm(a[2], b[2])
    IN  a[1] * (l \div a[2]) < b[1] * (l \div b[2])

RLeq(a, b) == ~RLess(b, a)
RMin(a, b) == IF RLess(b, a) THEN b ELSE a
RMax(a, b) == IF RLess(a, b) THEN b ELSE a
RAbs(a) == <<Abs(a[1]), a[2]>>

Zero == <<0, 1>>
One == <<1, 1>>

(***************************************************************************)
(* Engine constants.                                                       *)
(***************************************************************************)
CONFIDENCE_THRESHOLD == <<3, 5>>
MIN_SAMPLES == 10
DECAY_FACTOR == <<19, 20>>

(***************************************************************************)
(* Genome keys.                                                            *)
(***************************************************************************)
Traits ==
    {"motionSensitivity", "preferredInteractionSpeed", "layoutDensityTolerance",
     "guidanceNeed", "cognitiveLoadThreshold"}

DerivedMetrics == {"clickPrecision", "cursorSmoothness", "scrollBehavior", "hoverDwellTime"}

MetaKey(k) == k \o "Meta"

LearningState == {"observing", "tentative", "confident", "locked", "paused"}

(***************************************************************************)
(* Helpers on sequences of signals.                                        *)
(***************************************************************************)
RECURSIVE SumSeq(_)
SumSeq(s) == IF s = <<>> THEN 0 ELSE Head(s) + SumSeq(Tail(s))

OfType(signals, ty) == SelectSeq(signals, LAMBDA s : s.type = ty)

CountIf(s, P(_)) == Len(SelectSeq(s, P))

\* c.data.missDistance && c.data.missDistance > px, missDistance being optional
MissBeyond(c, px) == "missDistance" \in DOMAIN c.data /\ c.data.missDistance > px

(***************************************************************************)
(* updateTraitMetadata: the confidence-weighted update of one metadata     *)
(* record.  t is the value of Date.now().                                  *)
(***************************************************************************)
\* variant: the comparisons are not strict
NextState_NotStrict(currentMeta, updatedConfidence) ==
    IF RLeq(<<4, 5>>, updatedConfidence) THEN "confident"
    ELSE IF RLeq(<<1, 2>>, updatedConfidence) THEN "tentative"
    ELSE IF currentMeta.sampleCount < MIN_SAMPLES THEN "observing"
    ELSE currentMeta.state

\* variant: the two labels are exchanged
NextState_Exchanged(currentMeta, updatedConfidence) ==
    IF RLess(<<4, 5>>, updatedConfidence) THEN "tentative"
    ELSE IF RLess(<<1, 2>>, updatedConfidence) THEN "confident"
    ELSE IF currentMeta.sampleCount < MIN_SAMPLES THEN "observing"
    ELSE currentMeta.state

\* variant: a low confidence sends the trait back to observing whatever its sample count
NextState_NoFloor(currentMeta, updatedConfidence) ==
    IF RLess(<<4, 5>>, updatedConfidence) THEN "confident"
    ELSE IF RLess(<<1, 2>>, updatedConfidence) THEN "tentative"
    ELSE "observing"

NextState(currentMeta, updatedConfidence) ==
    IF RLess(<<4, 5>>, updatedConfidence) THEN "confident"
    ELSE IF RLess(<<1, 2>>, updatedConfidence) THEN "tentative"
    ELSE IF currentMeta.sampleCount < MIN_SAMPLES THEN "observing"
    ELSE currentMeta.state

\* variant: the two signs are exchanged
UpdatedConfidence_Exchanged(currentMeta, newConfidence, isStable) ==
    IF isStable
    THEN RMax(Zero, RSub(currentMeta.confidence, RMul(newConfidence, <<1, 10>>)))
    ELSE RMin(One, RAdd(currentMeta.confidence, RMul(newConfidence, <<1, 10>>)))

UpdatedConfidence(currentMeta, newConfidence, isStable) ==
    IF isStable
    THEN RMin(One, RAdd(currentMeta.confidence, RMul(newConfidence, <<1, 10>>)))
    ELSE RMax(Zero, RSub(currentMeta.confidence, RMul(newConfidence, <<1, 10>>)))

\* variant: an observed confidence of exactly the threshold decays as well
TakesDecay_Inclusive(currentMeta, newConfidence) ==
    RLeq(newConfidence, CONFIDENCE_THRESHOLD) /\ currentMeta.sampleCount > 0

TakesDecay(currentMeta, newConfidence) ==
    RLess(newConfidence, CONFIDENCE_THRESHOLD) /\ currentMeta.sampleCount > 0

\* variant: an adoption does not count the sample
updateTraitMetadata_NotCounted(currentMeta, newConfidence, isStable, t) ==
    IF TakesDecay(currentMeta, newConfidence)
    THEN [currentMeta EXCEPT !.confidence = RMul(@, DECAY_FACTOR)]
    ELSE LET updatedConfidence == UpdatedConfidence(currentMeta, newConfidence, isStable)
         IN  [confidence |-> updatedConfidence,
              lastUpdated |-> t,
              sampleCount |-> currentMeta.sampleCount,
              state |-> NextState(currentMeta, updatedConfidence)]

updateTraitMetadata(currentMeta, newConfidence, isStable, t) ==
    IF TakesDecay(currentMeta, newConfidence)
    THEN [currentMeta EXCEPT !.confidence = RMul(@, DECAY_FACTOR)]
    ELSE LET updatedConfidence == UpdatedConfidence(currentMeta, newConfidence, isStable)
         IN  [confidence |-> updatedConfidence,
              lastUpdated |-> t,
              sampleCount |-> currentMeta.sampleCount + 1,
              state |-> NextState(currentMeta, updatedConfidence)]

(***************************************************************************)
(* Derived metrics.                                                        *)
(***************************************************************************)
calculateClickPrecision(clicks) ==
    IF Len(clicks) = 0 THEN <<1, 2>>
    ELSE LET misses == CountIf(clicks, LAMBDA c : MissBeyond(c, 0))
         IN  RMax(Zero, RMin(One, RSub(One, Rat(misses, Len(clicks)))))

calculateCursorSmoothness(cursors) ==
    IF Len(cursors) = 0 THEN <<1, 2>>
    ELSE LET avgJitter == Rat(SumSeq([i \in 1..Len(cursors) |-> cursors[i].data.jitter]), Len(cursors))
         IN  RMax(Zero, RMin(One, RSub(One, RMin(One, RMul(avgJitter, <<1, 15>>)))))

inferScrollBehavior(scrolls) ==
    IF Len(scrolls) < 5 THEN "mixed"
    ELSE LET gaps == [i \in 1..(Len(scrolls) - 1) |-> scrolls[i + 1].timestamp - scrolls[i].timestamp]
             avgTimeBetween == Rat(SumSeq(gaps), Len(gaps))
         IN  IF RLess(avgTimeBetween, <<100, 1>>) THEN "continuous"
             ELSE IF RLess(<<1000, 1>>, avgTimeBetween) THEN "burst"
             ELSE "mixed"

calculateAverageHoverDwell(hovers) ==
    IF Len(hovers) = 0 THEN <<300, 1>>
    ELSE Rat(SumSeq([i \in 1..Len(hovers) |-> hovers[i].data.dwellTime]), Len(hovers))

(***************************************************************************)
(* The five estimators.  Each returns the empty sequence for "null" and a  *)
(* one-element sequence <<[value, meta]>> for a candidate.  The part of an *)
(* estimator before its call of updateTraitMetadata is its ...Candidate:   *)
(* the candidate value and the observed confidence.                        *)
(***************************************************************************)
Avg(nums, dflt) == IF Len(nums) > 0 THEN Rat(SumSeq(nums), Len(nums)) ELSE dflt

\* variant: no candidate counts as stable
IsStable_Never(genome, trait, c) == FALSE

\* the isStable argument: the candidate equals the current value, or is within
\* 0.2 of it for the numeric cognitive load
IsStable(genome, trait, c) ==
    IF trait = "cognitiveLoadThreshold"
    THEN RLess(RAbs(RSub(c[1].value, genome[trait])), <<1, 5>>)
    ELSE c[1].value = genome[trait]

\* the return of an estimator: null, or the candidate value with the updated metadata
Reconcile(genome, trait, c, t) ==
    IF c = <<>> THEN <<>>
    ELSE <<[value |-> c[1].value,
            meta |-> updateTraitMetadata(genome[MetaKey(trait)], c[1].confidence,
                                         IsStable(genome, trait, c), t)]>>

ObservedConfidence(count, full) == RMin(One, Rat(count, full))

\* variant: the floor is off by one
MotionCandidate_LowFloor(scrolls, cursors, clicks) ==
    IF Len(scrolls) < MIN_SAMPLES - 1 THEN <<>>
    ELSE LET reversalRate == Rat(CountIf(scrolls, LAMBDA s : s.data.reversalCount > 2), Len(scrolls))
             avgJitter == Avg([i \in 1..Len(cursors) |-> cursors[i].data.jitter], Zero)
             avgCorrections == Avg([i \in 1..Len(clicks) |-> clicks[i].data.correctionCount], Zero)
             sensitivityScore ==
                 RAdd(RAdd(RMul(reversalRate, <<2, 5>>),
                           IF RLess(<<10, 1>>, avgJitter) THEN <<3, 10>> ELSE Zero),
                      IF RLess(One, avgCorrections) THEN <<3, 10>> ELSE Zero)
             value == IF RLess(<<3, 5>>, sensitivityScore) THEN "high"
                      ELSE IF RLess(<<3, 10>>, sensitivityScore) THEN "medium"
                      ELSE "low"
             confidence == ObservedConfidence(Len(scrolls), 50)
         IN  <<[value |-> value, confidence |-> confidence]>>

\* variant: one reversal is enough for a scroll to count
MotionCandidate_AnyReversal(scrolls, cursors, clicks) ==
    IF Len(scrolls) < MIN_SAMPLES THEN <<>>
    ELSE LET reversalRate == Rat(CountIf(scrolls, LAMBDA s : s.data.reversalCount > 0), Len(scrolls))
             avgJitter == Avg([i \in 1..Len(cursors) |-> cursors[i].data.jitter], Zero)
             avgCorrections == Avg([i \in 1..Len(clicks) |-> clicks[i].data.correctionCount], Zero)
             sensitivityScore ==
                 RAdd(RAdd(RMul(reversalRate, <<2, 5>>),
                           IF RLess(<<10, 1>>, avgJitter) THEN <<3, 10>> ELSE Zero),
                      IF RLess(One, avgCorrections) THEN <<3, 10>> ELSE Zero)
             value == IF RLess(<<3, 5>>, sensitivityScore) THEN "high"
                      ELSE IF RLess(<<3, 10>>, sensitivityScore) THEN "medium"
                      ELSE "low"
             confidence == ObservedConfidence(Len(scrolls), 50)
         IN  <<[value |-> value, confidence |-> confidence]>>

MotionCandidate(scrolls, cursors, clicks) ==
    IF Len(scrolls) < MIN_SAMPLES THEN <<>>
    ELSE LET reversalRate == Rat(CountIf(scrolls, LAMBDA s : s.data.reversalCount > 2), Len(scrolls))
             avgJitter == Avg([i \in 1..Len(cursors) |-> cursors[i].data.jitter], Zero)
             avgCorrections == Avg([i \in 1..Len(clicks) |-> clicks[i].data.correctionCount], Zero)
             sensitivityScore ==
                 RAdd(RAdd(RMul(reversalRate, <<2, 5>>),
                           IF RLess(<<10, 1>>, avgJitter) THEN <<3, 10>> ELSE Zero),
                      IF RLess(One, avgCorrections) THEN <<3, 10>> ELSE Zero)
             value == IF RLess(<<3, 5>>, sensitivityScore) THEN "high"
                      ELSE IF RLess(<<3, 10>>, sensitivityScore) THEN "medium"
                      ELSE "low"
             confidence == ObservedConfidence(Len(scrolls), 50)
         IN  <<[value |-> value, confidence |-> confidence]>>

inferMotionSensitivity(genome, scrolls, cursors, clicks, t) ==
    Reconcile(genome, "motionSensitivity", MotionCandidate(scrolls, cursors, clicks), t)

SpeedScore(clicks, cursors, hovers) ==
    LET avgTimeToClick == Avg([i \in 1..Len(clicks) |-> clicks[i].data.timeToClick], <<500, 1>>)
        avgCursorVelocity == Avg([i \in 1..Len(cursors) |-> cursors[i].data.velocity], <<1, 2>>)
        avgHoverDwell == Avg([i \in 1..Len(hovers) |-> hovers[i].data.dwellTime], <<300, 1>>)
    IN  RAdd(RAdd(RMul(IF RLess(avgTimeToClick, <<200, 1>>) THEN One
                       ELSE IF RLess(avgTimeToClick, <<400, 1>>) THEN <<1, 2>> ELSE Zero,
                       <<2, 5>>),
                  RMul(IF RLess(One, avgCursorVelocity) THEN One
                       ELSE IF RLess(<<1, 2>>, avgCursorVelocity) THEN <<1, 2>> ELSE Zero,
                       <<3, 10>>)),
             RMul(IF RLess(avgHoverDwell, <<200, 1>>) THEN One
                  ELSE IF RLess(avgHoverDwell, <<400, 1>>) THEN <<1, 2>> ELSE Zero,
                  <<3, 10>>))

SpeedValue(speedScore) ==
    IF RLess(<<7, 10>>, speedScore) THEN "fast"
    ELSE IF RLess(<<3, 10>>, speedScore) THEN "balanced"
    ELSE "slow"

SpeedCandidate(clicks, cursors, hovers) ==
    IF Len(clicks) < MIN_SAMPLES THEN <<>>
    ELSE <<[value |-> SpeedValue(SpeedScore(clicks, cursors, hovers)),
            confidence |-> ObservedConfidence(Len(clicks), 30)]>>

inferInteractionSpeed(genome, clicks, cursors, hovers, t) ==
    Reconcile(genome, "preferredInteractionSpeed", SpeedCandidate(clicks, cursors, hovers), t)

DensityCandidate(clicks, cursors) ==
    IF Len(clicks) < MIN_SAMPLES THEN <<>>
    ELSE LET missRate == Rat(CountIf(clicks, LAMBDA c : MissBeyond(c, 5)), Len(clicks))
             avgTargetSize == Avg([i \in 1..Len(clicks) |-> clicks[i].data.targetSize], <<1000, 1>>)
             precision == calculateClickPrecision(clicks)
             densityScore ==
                 RAdd(RAdd(RMul(IF RLess(<<3, 10>>, missRate) THEN Zero
                                ELSE IF RLess(<<3, 20>>, missRate) THEN <<1, 2>> ELSE One,
                                <<2, 5>>),
                           RMul(IF RLess(avgTargetSize, <<500, 1>>) THEN Zero
                                ELSE IF RLess(avgTargetSize, <<1000, 1>>) THEN <<1, 2>> ELSE One,
                                <<3, 10>>)),
                      RMul(IF RLess(<<4, 5>>, precision) THEN One
                           ELSE IF RLess(<<3, 5>>, precision) THEN <<1, 2>> ELSE Zero,
                           <<3, 10>>))
             value == IF RLess(<<7, 10>>, densityScore) THEN "compact"
                      ELSE IF RLess(<<3, 10>>, densityScore) THEN "standard"
                      ELSE "spacious"
             confidence == ObservedConfidence(Len(clicks), 40)
         IN  <<[value |-> value, confidence |-> confidence]>>

inferDensityTolerance(genome, clicks, cursors, t) ==
    Reconcile(genome, "layoutDensityTolerance", DensityCandidate(clicks, cursors), t)

GuidanceCandidate(hovers, clicks) ==
    IF Len(hovers) < MIN_SAMPLES THEN <<>>
    ELSE LET avgDwell == Avg([i \in 1..Len(hovers) |-> hovers[i].data.dwellTime], <<300, 1>>)
             correctionRate == Avg([i \in 1..Len(clicks) |-> clicks[i].data.correctionCount], Zero)
             guidanceScore ==
                 RAdd(RMul(IF RLess(<<500, 1>>, avgDwell) THEN One
                           ELSE IF RLess(<<300, 1>>, avgDwell) THEN <<1, 2>> ELSE Zero,
                           <<3, 5>>),
                      RMul(IF RLess(One, correctionRate) THEN One
                           ELSE IF RLess(<<1, 2>>, correctionRate) THEN <<1, 2>> ELSE Zero,
                           <<2, 5>>))
             value == IF RLess(<<3, 5>>, guidanceScore) THEN "strong"
                      ELSE IF RLess(<<3, 10>>, guidanceScore) THEN "contextual"
                      ELSE "minimal"
             confidence == ObservedConfidence(Len(hovers), 30)
         IN  <<[value |-> value, confidence |-> confidence]>>

inferGuidanceNeed(genome, hovers, clicks, t) ==
    Reconcile(genome, "guidanceNeed", GuidanceCandidate(hovers, clicks), t)

Max(a, b) == IF a > b THEN a ELSE b

LoadScore(focusSignals, cursorSignals, scrollSignals) ==
    RMin(One,
         RAdd(RAdd(RMul(Rat(Cardinality({i \in 2..Len(focusSignals) :
                                focusSignals[i].timestamp - focusSignals[i - 1].timestamp < 500}),
                            Max(1, Len(focusSignals))),
                        <<2, 5>>),
                   RMul(RMin(One, RMul(Avg([i \in 1..Len(cursorSignals) |->
                                               cursorSignals[i].data.jitter], Zero),
                                       <<1, 20>>)),
                        <<3, 10>>)),
              RMul(Rat(CountIf(scrollSignals, LAMBDA s : s.data.reversalCount > 1),
                       Max(1, Len(scrollSignals))),
                   <<3, 10>>)))

LoadCandidate(signals) ==
    IF Len(signals) < MIN_SAMPLES THEN <<>>
    ELSE <<[value |-> LoadScore(OfType(signals, "focus"), OfType(signals, "cursor"),
                                OfType(signals, "scroll")),
            confidence |-> ObservedConfidence(Len(signals), 100)]>>

inferCognitiveLoad(genome, signals, t) ==
    Reconcile(genome, "cognitiveLoadThreshold", LoadCandidate(signals), t)

(***************************************************************************)
(* Partial objects are functions on a set of keys; object spread is        *)
(* function override.                                                      *)
(***************************************************************************)
Spread(base, over) ==
    [k \in (DOMAIN base) \cup (DOMAIN over) |-> IF k \in DOMAIN over THEN over[k] ELSE base[k]]

Obj(k, v) == [x \in {k} |-> v]

EmptyObj == [x \in {} |-> 0]

\* variant: the metadata key is left out
TraitUpdate_ValueOnly(trait, r) ==
    IF r = <<>> THEN EmptyObj ELSE Obj(trait, r[1].value)

\* what one estimator contributes to updates: nothing for null
TraitUpdate(trait, r) ==
    IF r = <<>> THEN EmptyObj
    ELSE Spread(Obj(trait, r[1].value), Obj(MetaKey(trait), r[1].meta))

DerivedUpdates(clicks, cursors, scrolls, hovers) ==
    [k \in DerivedMetrics |->
        CASE k = "clickPrecision" -> calculateClickPrecision(clicks)
          [] k = "cursorSmoothness" -> calculateCursorSmoothness(cursors)
          [] k = "scrollBehavior" -> inferScrollBehavior(scrolls)
          [] k = "hoverDwellTime" -> calculateAverageHoverDwell(hovers)]

\* variant: the hover dwell is averaged with the stored one
CollectUpdates_Smoothed(genome, clicks, cursors, scrolls, hovers, signals, t) ==
    Spread(Spread(Spread(Spread(Spread(Spread(
        TraitUpdate("motionSensitivity",
                    inferMotionSensitivity(genome, scrolls, cursors, clicks, t)),
        TraitUpdate("preferredInteractionSpeed",
                    inferInteractionSpeed(genome, clicks, cursors, hovers, t))),
        TraitUpdate("layoutDensityTolerance", inferDensityTolerance(genome, clicks, cursors, t))),
        TraitUpdate("guidanceNeed", inferGuidanceNeed(genome, hovers, clicks, t))),
        TraitUpdate("cognitiveLoadThreshold", inferCognitiveLoad(genome, signals, t))),
        DerivedUpdates(clicks, cursors, scrolls, hovers)),
        Obj("hoverDwellTime",
            RMul(RAdd(genome["hoverDwellTime"], calculateAverageHoverDwell(hovers)),
                 <<1, 2>>)))

\* the body of inferTraits once the signals are grouped by type
CollectUpdates(genome, clicks, cursors, scrolls, hovers, signals, t) ==
    Spread(Spread(Spread(Spread(Spread(
        TraitUpdate("motionSensitivity",
                    inferMotionSensitivity(genome, scrolls, cursors, clicks, t)),
        TraitUpdate("preferredInteractionSpeed",
                    inferInteractionSpeed(genome, clicks, cursors, hovers, t))),
        TraitUpdate("layoutDensityTolerance", inferDensityTolerance(genome, clicks, cursors, t))),
        TraitUpdate("guidanceNeed", inferGuidanceNeed(genome, hovers, clicks, t))),
        TraitUpdate("cognitiveLoadThreshold", inferCognitiveLoad(genome, signals, t))),
        DerivedUpdates(clicks, cursors, scrolls, hovers))

inferTraits(genome, signals, t) ==
    CollectUpdates(genome, OfType(signals, "click"), OfType(signals, "cursor"),
                   OfType(signals, "scroll"), OfType(signals, "hover"), signals, t)

(***************************************************************************)
(* The genome store.                                                       *)
(***************************************************************************)
createDefaultMeta(t) ==
    [confidence |-> Zero, lastUpdated |-> t, sampleCount |-> 0, state |-> "observing"]

\* t is Date.now() when the store module is loaded
DEFAULT_GENOME(t) ==
    [k \in {"version", "createdAt", "lastUpdated", "navigationDepthTolerance", "learningEnabled"}
           \cup Traits \cup {MetaKey(x) : x \in Traits} \cup DerivedMetrics |->
        CASE k = "version" -> "1.0.0"
          [] k \in {"createdAt", "lastUpdated"} -> t
          [] k = "motionSensitivity" -> "medium"
          [] k = "preferredInteractionSpeed" -> "balanced"
          [] k = "layoutDensityTolerance" -> "standard"
          [] k = "guidanceNeed" -> "contextual"
          [] k = "cognitiveLoadThreshold" -> <<1, 2>>
          [] k \in {MetaKey(x) : x \in Traits} -> createDefaultMeta(t)
          [] k = "clickPrecision" -> <<1, 2>>
          [] k = "cursorSmoothness" -> <<1, 2>>
          [] k = "scrollBehavior" -> "mixed"
          [] k = "hoverDwellTime" -> <<300, 1>>
          [] k = "navigationDepthTolerance" -> 3
          [] k = "learningEnabled" -> TRUE]

Without(obj, k) == [x \in (DOMAIN obj) \ {k} |-> obj[x]]

\* the keys of updates whose value the forEach loop puts back
Reverted(updatedGenome, updates) ==
    {k \in DOMAIN updates :
        /\ MetaKey(k) \in DOMAIN updatedGenome
        /\ updatedGenome[MetaKey(k)].state = "locked"}

\* the forEach loop: a reverted key takes the value it had in g (none, if g had none)
RevertLocked(g, updatedGenome, back) ==
    [k \in (DOMAIN updatedGenome) \ (back \ DOMAIN g) |->
        IF k \in back THEN g[k] ELSE updatedGenome[k]]

Merged(g, updates, t) == Spread(Spread(g, updates), Obj("lastUpdated", t))

updateGenome(g, updates, t) ==
    RevertLocked(g, Merged(g, updates, t), Reverted(Merged(g, updates, t), updates))

resetGenome(loaded, t) == Spread(DEFAULT_GENOME(loaded), Obj("createdAt", t))

pauseLearning(g, durationMs, t) ==
    LET off == Spread(g, Obj("learningEnabled", FALSE))
    IN  IF durationMs # 0 THEN Spread(off, Obj("pausedUntil", t + durationMs))
        ELSE Without(off, "pausedUntil")

resumeLearning(g) == Without(Spread(g, Obj("learningEnabled", TRUE)), "pausedUntil")

\* variant: locking starts the sample count again
lockTrait_Recounted(g, trait) ==
    IF MetaKey(trait) \in DOMAIN g
    THEN Spread(g, Obj(MetaKey(trait),
                       [g[MetaKey(trait)] EXCEPT !.state = "locked", !.sampleCount = 0]))
    ELSE g

\* variant: locking also makes the trait fully confident
lockTrait_Certain(g, trait) ==
    IF MetaKey(trait) \in DOMAIN g
    THEN Spread(g, Obj(MetaKey(trait),
                       [g[MetaKey(trait)] EXCEPT !.state = "locked", !.confidence = One]))
    ELSE g

lockTrait(g, trait) ==
    IF MetaKey(trait) \in DOMAIN g
    THEN Spread(g, Obj(MetaKey(trait), [g[MetaKey(trait)] EXCEPT !.state = "locked"]))
    ELSE g

\* variant: ten samples are enough for confident
unlockTrait_AtLeast(g, trait) ==
    IF MetaKey(trait) \in DOMAIN g /\ g[MetaKey(trait)].state = "locked"
    THEN Spread(g, Obj(MetaKey(trait),
                       [g[MetaKey(trait)] EXCEPT
                           !.state = IF g[MetaKey(trait)].sampleCount >= 10 THEN "confident"
                                     ELSE "tentative"]))
    ELSE g

unlockTrait(g, trait) ==
    IF MetaKey(trait) \in DOMAIN g /\ g[MetaKey(trait)].state = "locked"
    THEN Spread(g, Obj(MetaKey(trait),
                       [g[MetaKey(trait)] EXCEPT
                           !.state = IF g[MetaKey(trait)].sampleCount > 10 THEN "confident"
                                     ELSE "tentative"]))
    ELSE g

\* a JSON text is modelled by what JSON.parse makes of it
Unparseable == [parses |-> FALSE, value |-> EmptyObj]
Parsed(obj) == [parses |-> TRUE, value |-> obj]

\* !imported.version || !imported.createdAt
importAccepts(json) ==
    /\ json.parses
    /\ "version" \in DOMAIN json.value /\ json.value["version"] # ""
    /\ "createdAt" \in DOMAIN json.value /\ json.value["createdAt"] # 0

\* variant: the payload is merged into the stored genome, field by field
importGenome_Merging(g, json) == IF importAccepts(json) THEN Spread(g, json.value) ELSE g

importGenome(g, json) == IF importAccepts(json) THEN json.value ELSE g

\* the boolean importGenome returns
importReturns(json) == importAccepts(json)

(***************************************************************************)
(* Signal records and the signal windows handed to the engine.             *)
(***************************************************************************)
ScrollSignal(ts, reversalCount) ==
    [type |-> "scroll", timestamp |-> ts, data |-> [reversalCount |-> reversalCount]]

CursorSignal(ts, velocity, jitter) ==
    [type |-> "cursor", timestamp |-> ts, data |-> [velocity |-> velocity, jitter |-> jitter]]

ClickSignal(ts, targetSize, correctionCount, timeToClick) ==
    [type |-> "click", timestamp |-> ts,
     data |-> [targetSize |-> targetSize, correctionCount |-> correctionCount,
               timeToClick |-> timeToClick]]

\* a click record that carries the optional missDistance
MissClickSignal(ts, targetSize, correctionCount, timeToClick, missDistance) ==
    [type |-> "click", timestamp |-> ts,
     data |-> [targetSize |-> targetSize, correctionCount |-> correctionCount,
               timeToClick |-> timeToClick, missDistance |-> missDistance]]

HoverSignal(ts, dwellTime) ==
    [type |-> "hover", timestamp |-> ts, data |-> [dwellTime |-> dwellTime]]

FocusSignal(ts) == [type |-> "focus", timestamp |-> ts, data |-> [tabCount |-> 1]]

Times(n, Mk(_)) == [i \in 1..n |-> Mk(i)]

Windows ==
    << \* 1: nine scrolls, below every estimator's floor
       Times(9, LAMBDA i : ScrollSignal(50 * i, 3)),
       \* 2: twelve calm scrolls and four short hovers
       Times(12, LAMBDA i : ScrollSignal(50 * i, 0))
           \o Times(4, LAMBDA i : HoverSignal(50 * i + 1, 100)),
       \* 3: thirty scrolls with reversals
       Times(30, LAMBDA i : ScrollSignal(50 * i, 3)),
       \* 4: sixty precise quick clicks
       Times(60, LAMBDA i : ClickSignal(20 * i, 1200, 0, 150)),
       \* 5: a busy window of one hundred signals of four kinds
       Times(50, LAMBDA i : ScrollSignal(2000 * i, 3))
           \o Times(30, LAMBDA i : HoverSignal(2000 * i + 1, 600))
           \o Times(12, LAMBDA i : ClickSignal(2000 * i + 2, 400, 2, 450))
           \o Times(8, LAMBDA i : CursorSignal(2000 * i + 3, 2, 25)) >>

(***************************************************************************)
(* SignalCapture: the buffer.                                              *)
(***************************************************************************)
BUFFER_LIMIT == 1000

\* variant: the newest record is dropped instead of the oldest
emit_DropsNewest(buf, signal) ==
    LET pushed == Append(buf, signal)
    IN  IF Len(pushed) > BUFFER_LIMIT THEN SubSeq(pushed, 1, BUFFER_LIMIT) ELSE pushed

\* buffer.push(signal), then buffer.shift() when the length is over the limit
emit(buf, signal) ==
    LET pushed == Append(buf, signal)
    IN  IF Len(pushed) > BUFFER_LIMIT THEN Tail(pushed) ELSE pushed

\* the n-th signal the listeners of the page emit: one event per millisecond
EmittedSignal(n) ==
    CASE n % 3 = 0 -> ScrollSignal(n, 0)
      [] n % 3 = 1 -> ClickSignal(n, 1200, 0, 150)
      [] n % 3 = 2 -> HoverSignal(n, 100)

\* variant: a record exactly at the cutoff is left out
getRecentSignals_Exclusive(buf, windowMs, t) ==
    SelectSeq(buf, LAMBDA s : s.timestamp > t - windowMs)

\* this.buffer.filter(s => s.timestamp >= cutoff), t being Date.now()
getRecentSignals(buf, windowMs, t) ==
    SelectSeq(buf, LAMBDA s : s.timestamp >= t - windowMs)

clearBuffer == <<>>

\* variant: the listeners are called before the push
AtNotify_BeforePush(buf, signal) == buf

\* the buffer when emit calls the listeners: the signal is already pushed
\* and the oldest record not yet shifted out
AtNotify(buf, signal) == Append(buf, signal)

(***************************************************************************)
(* GenomeProvider.                                                         *)
(***************************************************************************)
TIMER_MS == 5000            \* the delay of the inference timeout
RECENT_WINDOW_MS == 30000   \* the window the timeout callback reads

\* the keys of the object useGenomeStore() returns
StoreKeys ==
    {"genome", "updateGenome", "resetGenome", "pauseLearning", "resumeLearning",
     "lockTrait", "unlockTrait", "exportGenome", "importGenome"}

\* variant: the test is left out
LearningGate_Open(g) == TRUE

\* learningEnabled && genome.learningEnabled, learningEnabled being destructured
\* from the store object: undefined (falsy) unless the store has that key
LearningGate(g) == "learningEnabled" \in StoreKeys /\ g["learningEnabled"]

\* variant: the test of the ref is left out
MayArm_Always(ref) == TRUE

\* if (updateIntervalRef.current) return
MayArm(ref) == ref = 0

\* the effect's cleanup: clearTimeout(updateIntervalRef.current) when the ref is set
Cleanup(ref, scheduled) ==
    IF ref # 0 THEN {x \in scheduled : x.id # ref} ELSE scheduled

\* the body of the timeout callback between the gate and updateIntervalRef.current = null
CycleBody(g, recentSignals, t) ==
    IF Len(recentSignals) > 0 /\ DOMAIN inferTraits(g, recentSignals, t) # {}
    THEN updateGenome(g, inferTraits(g, recentSignals, t), t)
    ELSE g

(***************************************************************************)
(* JSON texts handed to importGenome.                                      *)
(***************************************************************************)
Meta(confidence, sampleCount, state) ==
    [confidence |-> confidence, lastUpdated |-> 1, sampleCount |-> sampleCount, state |-> state]

\* a genome exported by an earlier session
VeteranGenome ==
    Spread(DEFAULT_GENOME(1),
           [k \in {"motionSensitivity", "guidanceNeed"} \cup {MetaKey(x) : x \in Traits} |->
               CASE k = "motionSensitivity" -> "high"
                 [] k = "motionSensitivityMeta" -> Meta(<<7, 10>>, 9, "tentative")
                 [] k = "preferredInteractionSpeedMeta" -> Meta(<<3, 4>>, 12, "tentative")
                 [] k = "layoutDensityToleranceMeta" -> Meta(<<21, 40>>, 9, "tentative")
                 [] k = "guidanceNeed" -> "strong"
                 [] k = "guidanceNeedMeta" -> Meta(<<9, 10>>, 8, "confident")
                 [] k = "cognitiveLoadThresholdMeta" -> Meta(<<1, 2>>, 10, "observing")])

\* a genome written by another tool: a confidence of 1.5 and a paused trait
ForeignGenome ==
    Spread(DEFAULT_GENOME(1),
           [k \in {"motionSensitivityMeta", "guidanceNeedMeta"} |->
               IF k = "motionSensitivityMeta" THEN Meta(<<3, 2>>, 4, "confident")
               ELSE Meta(<<1, 5>>, 3, "paused")])

\* a genome exported with two traits locked
LockedGenome ==
    Spread(DEFAULT_GENOME(1),
           [k \in {"preferredInteractionSpeedMeta", "cognitiveLoadThresholdMeta"} |->
               IF k = "preferredInteractionSpeedMeta" THEN Meta(<<1, 5>>, 12, "locked")
               ELSE Meta(<<9, 10>>, 10, "locked")])

\* a genome whose createdAt is the epoch itself
EpochGenome == Spread(VeteranGenome, Obj("createdAt", 0))

ImportTexts ==
    << Unparseable,
       Parsed(Obj("motionSensitivity", "high")),
       Parsed(VeteranGenome),
       Parsed(ForeignGenome),
       Parsed(LockedGenome),
       Parsed(EpochGenome) >>

\* the names lockTrait and unlockTrait are called with
LockNames == Traits \cup {"clickPrecision"}

PauseDurations == {0, 1}   \* 0 stands for a call without durationMs

(***************************************************************************)
(* State.                                                                  *)
(***************************************************************************)
VARIABLES
    genome,     \* useGenomeStore's genome
    now,        \* Date.now()
    timers,     \* deadlines of the pending resume timeouts of pauseLearning (a bag)
    cycles,     \* inference cycles run so far
    external,   \* external store actions taken so far
    last,       \* the latest operation: its name, its argument and the genome it started from
    buffer,     \* SignalCapture's buffer
    emitted,    \* signals emitted so far
    updateIntervalRef,  \* GenomeProvider's updateIntervalRef.current: 0 for null, else a timer id
    cycleTimers,        \* the provider's timeouts that are scheduled and not cleared
    armed,      \* timeouts the provider has scheduled so far
    sent,       \* the signals passed to emit since the buffer was last cleared
    notified,   \* the buffer as the listeners of the latest emit found it
    recent,     \* the latest calls of getRecentSignals on unchanged inputs, newest first
    pauseEnded  \* a pause of learning has ended while the provider was mounted

vars ==
    <<genome, now, timers, cycles, external, last, buffer, emitted,
      updateIntervalRef, cycleTimers, armed, sent, notified, recent, pauseEnded>>

providerVars == <<updateIntervalRef, cycleTimers, armed, sent, notified, recent, pauseEnded>>

captureVars == <<buffer, emitted, providerVars>>

storeVars == <<genome, now, timers, cycles, external, last>>

Loaded == 1   \* Date.now() when the store module was loaded

\* ret is what the operation returned, TRUE where it returns nothing
Did(op, trait, arg) ==
    [op |-> op, trait |-> trait, arg |-> arg, before |-> genome, at |-> now, ret |-> TRUE]

Init ==
    /\ genome = DEFAULT_GENOME(Loaded)
    /\ now = Loaded
    /\ timers = <<>>
    /\ cycles = 0
    /\ external = 0
    /\ last = [op |-> "init", trait |-> "", arg |-> 0,
               before |-> DEFAULT_GENOME(Loaded), at |-> Loaded, ret |-> TRUE]
    /\ buffer = <<>>
    /\ emitted = 0
    /\ updateIntervalRef = 0
    /\ cycleTimers = {}
    /\ armed = 0
    /\ sent = <<>>
    /\ notified = <<>>
    /\ recent = <<>>
    /\ pauseEnded = FALSE

Tick ==
    /\ now < MaxTime
    /\ now' = now + 1
    /\ UNCHANGED <<genome, timers, cycles, external, last, captureVars>>

\* inference.inferTraits(genome, recentSignals) followed by updateGenome(updates)
InferenceCycle(w) ==
    /\ cycles < MaxCycles
    /\ genome' = updateGenome(genome, inferTraits(genome, Windows[w], now), now)
    /\ cycles' = cycles + 1
    /\ last' = Did("cycle", "", w)
    /\ UNCHANGED <<now, timers, external, captureVars>>

External == external < MaxExternal /\ external' = external + 1

\* variant: the metadata of a locked trait survives the reset
ResetGenome_KeepsLocked ==
    /\ External
    /\ genome' = [k \in DOMAIN resetGenome(Loaded, now) |->
                      IF k \in {MetaKey(x) : x \in Traits} /\ genome[k].state = "locked"
                      THEN genome[k] ELSE resetGenome(Loaded, now)[k]]
    /\ last' = Did("reset", "", 0)
    /\ UNCHANGED <<now, timers, cycles, captureVars>>

ResetGenome ==
    /\ External
    /\ genome' = resetGenome(Loaded, now)
    /\ last' = Did("reset", "", 0)
    /\ UNCHANGED <<now, timers, cycles, captureVars>>

PauseLearning(durationMs) ==
    /\ External
    /\ genome' = pauseLearning(genome, durationMs, now)
    /\ timers' = IF durationMs # 0 THEN Append(timers, now + durationMs) ELSE timers
    /\ last' = Did("pause", "", 0)
    /\ UNCHANGED <<now, cycles, captureVars>>

ResumeLearning ==
    /\ External
    /\ genome' = resumeLearning(genome)
    /\ last' = Did("resume", "", 0)
    /\ UNCHANGED <<now, timers, cycles, captureVars>>

\* the setTimeout callback of pauseLearning
ResumeTimer ==
    /\ timers # <<>>
    /\ Head(timers) <= now
    /\ genome' = resumeLearning(genome)
    /\ timers' = Tail(timers)
    /\ last' = Did("resumeTimer", "", 0)
    /\ UNCHANGED <<now, cycles, external, captureVars>>

LockTrait(trait) ==
    /\ External
    /\ genome' = lockTrait(genome, trait)
    /\ last' = Did("lock", trait, 0)
    /\ UNCHANGED <<now, timers, cycles, captureVars>>

UnlockTrait(trait) ==
    /\ External
    /\ genome' = unlockTrait(genome, trait)
    /\ last' = Did("unlock", trait, 0)
    /\ UNCHANGED <<now, timers, cycles, captureVars>>

ImportGenome(i) ==
    /\ External
    /\ genome' = importGenome(genome, ImportTexts[i])
    /\ last' = [Did("import", "", i) EXCEPT !.ret = importReturns(ImportTexts[i])]
    /\ UNCHANGED <<now, timers, cycles, captureVars>>

Next ==
    \/ Tick
    \/ \E w \in DOMAIN Windows : InferenceCycle(w)
    \/ ResetGenome
    \/ \E d \in PauseDurations : PauseLearning(d)
    \/ ResumeLearning
    \/ ResumeTimer
    \/ \E trait \in LockNames : LockTrait(trait)
    \/ \E trait \in LockNames : UnlockTrait(trait)
    \/ \E i \in DOMAIN ImportTexts : ImportGenome(i)

Spec == Init /\ [][Next]_vars

(***************************************************************************)
(* The signal capture on its own: the page's listeners emit signals.       *)
(***************************************************************************)
Emit ==
    /\ emitted < MaxEmits
    /\ buffer' = emit(buffer, EmittedSignal(emitted + 1))
    /\ emitted' = emitted + 1
    /\ UNCHANGED <<storeVars, providerVars>>

NextCapture == Emit

SpecCapture == Init /\ [][NextCapture]_vars

(***************************************************************************)
(* The mounted provider: the page emits signals, the subscriber arms the   *)
(* inference timeout, the timeout callback runs a cycle, and the user      *)
(* pauses and resumes learning.  A store update re-renders the provider,   *)
(* which runs the effect's cleanup and subscribes again.                   *)
(***************************************************************************)
ClockStep == TIMER_MS \div 2

SignalKinds == {"hover", "scroll"}

PageSignal(kind, t) == IF kind = "hover" THEN HoverSignal(t, 100) ELSE ScrollSignal(t, 0)

ReadWindows == {0, ClockStep, RECENT_WINDOW_MS}

ProviderPauseDurations == {0, 1000}

ProviderTick ==
    /\ now < Loaded + MaxClockSteps * ClockStep
    /\ now' = now + ClockStep
    /\ UNCHANGED <<genome, timers, cycles, external, last, buffer, emitted, providerVars>>

\* emit(signal) with the provider's subscriber among the listeners
EmitSignal(kind) ==
    /\ emitted < MaxSignals
    /\ buffer' = emit(buffer, PageSignal(kind, now))
    /\ notified' = AtNotify(buffer, PageSignal(kind, now))
    /\ sent' = Append(sent, PageSignal(kind, now))
    /\ emitted' = emitted + 1
    /\ IF MayArm(updateIntervalRef)
       THEN /\ armed' = armed + 1
            /\ updateIntervalRef' = armed + 1
            /\ cycleTimers' = cycleTimers \cup {[id |-> armed + 1, due |-> now + TIMER_MS]}
       ELSE UNCHANGED <<armed, updateIntervalRef, cycleTimers>>
    /\ UNCHANGED <<genome, now, timers, cycles, external, last, recent, pauseEnded>>

\* the callback of the provider's timeout
CycleTimerFires ==
    \E timer \in cycleTimers :
        /\ timer.due <= now
        /\ genome' = IF LearningGate(genome)
                     THEN CycleBody(genome, getRecentSignals(buffer, RECENT_WINDOW_MS, now), now)
                     ELSE genome
        /\ updateIntervalRef' = 0
        /\ cycleTimers' = cycleTimers \ {timer}
        /\ cycles' = cycles + 1
        /\ last' = Did("timer", "", timer.id)
        /\ UNCHANGED <<now, timers, external, buffer, emitted, armed, sent, notified, recent,
                       pauseEnded>>

\* variant: the read takes the records it returns out of the buffer
ReadRecent_Draining(windowMs) ==
    /\ recent' = <<[windowMs |-> windowMs, at |-> now, of |-> buffer,
                    result |-> getRecentSignals(buffer, windowMs, now)]>>
    /\ buffer' = SelectSeq(buffer, LAMBDA s : s.timestamp < now - windowMs)
    /\ UNCHANGED <<genome, now, timers, cycles, external, last, emitted,
                   updateIntervalRef, cycleTimers, armed, sent, notified, pauseEnded>>

\* a call of capture.getRecentSignals(windowMs)
ReadRecent(windowMs) ==
    /\ recent' =
           LET call == [windowMs |-> windowMs, at |-> now, of |-> buffer,
                        result |-> getRecentSignals(buffer, windowMs, now)]
           IN  IF /\ recent # <<>>
                  /\ recent[1].windowMs = windowMs /\ recent[1].at = now /\ recent[1].of = buffer
               THEN <<call, recent[1]>>
               ELSE <<call>>
    /\ UNCHANGED <<genome, now, timers, cycles, external, last, buffer, emitted,
                   updateIntervalRef, cycleTimers, armed, sent, notified, pauseEnded>>

\* a call of capture.clearBuffer()
ClearBuffer ==
    /\ buffer # <<>>
    /\ buffer' = clearBuffer
    /\ sent' = <<>>
    /\ UNCHANGED <<genome, now, timers, cycles, external, last, emitted,
                   updateIntervalRef, cycleTimers, armed, notified, recent, pauseEnded>>

\* what a store update does to the provider: the effect is cleaned up and run again
Rerendered ==
    /\ cycleTimers' = Cleanup(updateIntervalRef, cycleTimers)
    /\ UNCHANGED <<updateIntervalRef, armed, sent, notified, recent, buffer, emitted>>

ProviderPause(durationMs) ==
    /\ External
    /\ genome' = pauseLearning(genome, durationMs, now)
    /\ timers' = IF durationMs # 0 THEN Append(timers, now + durationMs) ELSE timers
    /\ last' = Did("pause", "", durationMs)
    /\ Rerendered
    /\ UNCHANGED <<now, cycles, pauseEnded>>

ProviderResume ==
    /\ External
    /\ genome' = resumeLearning(genome)
    /\ last' = Did("resume", "", 0)
    /\ pauseEnded' = (pauseEnded \/ ~genome["learningEnabled"])
    /\ Rerendered
    /\ UNCHANGED <<now, timers, cycles>>

\* the setTimeout callback of pauseLearning, with the provider mounted
ProviderResumeTimer ==
    /\ timers # <<>>
    /\ Head(timers) <= now
    /\ genome' = resumeLearning(genome)
    /\ timers' = Tail(timers)
    /\ last' = Did("resumeTimer", "", 0)
    /\ pauseEnded' = (pauseEnded \/ ~genome["learningEnabled"])
    /\ Rerendered
    /\ UNCHANGED <<now, cycles, external>>

NextProvider ==
    \/ ProviderTick
    \/ \E kind \in SignalKinds : EmitSignal(kind)
    \/ CycleTimerFires
    \/ \E d \in ProviderPauseDurations : ProviderPause(d)
    \/ ProviderResume
    \/ ProviderResumeTimer

SpecProvider == Init /\ [][NextProvider]_vars

(***************************************************************************)
(* The buffer read and cleared while signals arrive and cycles run.        *)
(***************************************************************************)
NextReads ==
    \/ ProviderTick
    \/ \E kind \in SignalKinds : EmitSignal(kind)
    \/ CycleTimerFires
    \/ \E w \in ReadWindows : ReadRecent(w)
    \/ ClearBuffer

SpecReads == Init /\ [][NextReads]_vars

(***************************************************************************)
(* Export and import.  JSON.stringify writes one member per key, a string, *)
(* a number or a boolean as its literal and a metadata record as an        *)
(* object; a key whose value is undefined is left out (such a key is       *)
(* absent from the genome here).  JSON.parse reads the members back.       *)
(***************************************************************************)
MetaKeys == {MetaKey(x) : x \in Traits}

StringKeys ==
    {"version", "motionSensitivity", "preferredInteractionSpeed", "layoutDensityTolerance",
     "guidanceNeed", "scrollBehavior"}

JSONtoken(k, v) ==
    IF k \in MetaKeys
    THEN <<"object", [confidence |-> <<"number", v.confidence>>,
                      lastUpdated |-> <<"number", v.lastUpdated>>,
                      sampleCount |-> <<"number", v.sampleCount>>,
                      state |-> <<"string", v.state>>]>>
    ELSE IF k \in StringKeys THEN <<"string", v>>
    ELSE IF k = "learningEnabled" THEN <<"literal", v>>
    ELSE <<"number", v>>

JSONstringify(obj) == [k \in DOMAIN obj |-> JSONtoken(k, obj[k])]

JSONvalue(token) ==
    IF token[1] = "object"
    THEN [confidence |-> token[2].confidence[2], lastUpdated |-> token[2].lastUpdated[2],
          sampleCount |-> token[2].sampleCount[2], state |-> token[2].state[2]]
    ELSE token[2]

JSONparse(text) == [k \in DOMAIN text |-> JSONvalue(text[k])]

\* variant: the metadata records are not exported
exportGenome_Bare(g) ==
    [parses |-> TRUE,
     value |-> JSONparse(JSONstringify([k \in (DOMAIN g) \ MetaKeys |-> g[k]]))]

\* the text exportGenome returns, as what JSON.parse makes of it
exportGenome(g) == [parses |-> TRUE, value |-> JSONparse(JSONstringify(g))]

\* importGenome(exportGenome())
ExportImport ==
    /\ External
    /\ genome' = importGenome(genome, exportGenome(genome))
    /\ last' = [Did("roundtrip", "", 0) EXCEPT !.ret = importReturns(exportGenome(genome))]
    /\ UNCHANGED <<now, timers, cycles, captureVars>>

NextExchange == Next \/ ExportImport

SpecExchange == Init /\ [][NextExchange]_vars

(***************************************************************************)
(* The mounted provider while the user resets the genome.                  *)
(***************************************************************************)
\* resetGenome() with the provider mounted
ProviderReset ==
    /\ External
    /\ genome' = resetGenome(Loaded, now)
    /\ last' = Did("reset", "", 0)
    /\ Rerendered
    /\ UNCHANGED <<now, timers, cycles, pauseEnded>>

NextReset ==
    \/ ProviderTick
    \/ \E kind \in SignalKinds : EmitSignal(kind)
    \/ CycleTimerFires
    \/ ProviderReset
    \/ ClearBuffer

SpecReset == Init /\ [][NextReset]_vars

(***************************************************************************)
(* The engine on its own: inferTraits is called on a window of signals     *)
(* with the stored genome, and the result is handed to updateGenome.  The  *)
(* genome is a fresh one or one restored by an import.                     *)
(***************************************************************************)
EngineWindows ==
    << \* 1: sixty precise quick clicks and nothing else
       Times(60, LAMBDA i : MissClickSignal(20 * i, 1200, 0, 150, 0)),
       \* 2: ten cursor records with a negative jitter
       Times(10, LAMBDA i : CursorSignal(20 * i, 2, -40)),
       \* 3: ten cursor records with a jitter above 20
       Times(10, LAMBDA i : CursorSignal(20 * i, 2, 25)),
       \* 4: every count one below 0.6 of its full count; each scroll has one reversal
       Times(29, LAMBDA i : ScrollSignal(500 * i, 1))
           \o Times(17, LAMBDA i : HoverSignal(500 * i + 1, 600))
           \o Times(13, LAMBDA i : ClickSignal(500 * i + 2, 1200, 0, 150)),
       \* 5: scrolls, hovers and the total at 0.6 of their full count; three reversals each
       Times(30, LAMBDA i : ScrollSignal(500 * i, 3))
           \o Times(18, LAMBDA i : HoverSignal(500 * i + 1, 600))
           \o Times(12, LAMBDA i : ClickSignal(500 * i + 2, 1200, 0, 150)),
       \* 6 to 9: clicks around 0.6 of thirty and of forty
       Times(17, LAMBDA i : ClickSignal(500 * i, 400, 2, 450)),
       Times(18, LAMBDA i : ClickSignal(500 * i, 400, 2, 450)),
       Times(23, LAMBDA i : ClickSignal(500 * i, 400, 2, 450)),
       Times(24, LAMBDA i : ClickSignal(500 * i, 400, 2, 450)),
       \* 10: nine scrolls, below every floor
       Times(9, LAMBDA i : ScrollSignal(50 * i, 1)),
       \* 11: reversing scrolls under a jittery cursor
       Times(12, LAMBDA i : ScrollSignal(50 * i, 3))
           \o Times(8, LAMBDA i : CursorSignal(50 * i + 1, 2, 25)),
       \* 12: four hovers
       Times(4, LAMBDA i : HoverSignal(50 * i, 100)) >>

EngineGenomes == {DEFAULT_GENOME(Loaded), VeteranGenome, LockedGenome}

InitEngine ==
    /\ genome \in EngineGenomes
    /\ now = Loaded
    /\ timers = <<>>
    /\ cycles = 0
    /\ external = 0
    /\ last = [op |-> "init", trait |-> "", arg |-> 0,
               before |-> genome, at |-> Loaded, ret |-> TRUE]
    /\ buffer = <<>>
    /\ emitted = 0
    /\ updateIntervalRef = 0
    /\ cycleTimers = {}
    /\ armed = 0
    /\ sent = <<>>
    /\ notified = <<>>
    /\ recent = <<>>
    /\ pauseEnded = FALSE

\* inference.inferTraits(genome, signals) followed by updateGenome(updates)
InferenceRun(w) ==
    /\ cycles < MaxCycles
    /\ genome' = updateGenome(genome, inferTraits(genome, EngineWindows[w], now), now)
    /\ cycles' = cycles + 1
    /\ last' = Did("infer", "", w)
    /\ UNCHANGED <<now, timers, external, captureVars>>

NextEngine ==
    \/ Tick
    \/ \E w \in DOMAIN EngineWindows : InferenceRun(w)

SpecEngine == InitEngine /\ [][NextEngine]_vars

(***************************************************************************)
(* The adaptation rules generated from a genome.                           *)
(***************************************************************************)
\* Math.round: the nearest integer, a half going up
MathRound(r) == (2 * r[1] + r[2]) \div (2 * r[2])

baseDurations == [fast |-> 150, balanced |-> 250, slow |-> 400]

\* variant: the two factors are added, not multiplied
getAnimationDuration_Summed(g, speed) ==
    MathRound(RMul(<<baseDurations[speed], 1>>,
                   RAdd(IF g["motionSensitivity"] = "high" THEN <<3, 5>>
                        ELSE IF g["motionSensitivity"] = "low" THEN <<6, 5>> ELSE One,
                        IF g["preferredInteractionSpeed"] = "fast" THEN <<-1, 5>>
                        ELSE IF g["preferredInteractionSpeed"] = "slow" THEN <<3, 10>> ELSE Zero)))

getAnimationDuration(g, speed) ==
    MathRound(RMul(<<baseDurations[speed], 1>>,
                   RMul(IF g["motionSensitivity"] = "high" THEN RMul(One, <<3, 5>>)
                        ELSE IF g["motionSensitivity"] = "low" THEN RMul(One, <<6, 5>>) ELSE One,
                        IF g["preferredInteractionSpeed"] = "fast" THEN <<4, 5>>
                        ELSE IF g["preferredInteractionSpeed"] = "slow" THEN <<13, 10>> ELSE One)))

getSpacing(density, level) ==
    CASE density = "compact" ->
            [compact |-> "0.25rem", standard |-> "0.5rem", spacious |-> "1rem"][level]
      [] density = "standard" ->
            [compact |-> "0.5rem", standard |-> "1rem", spacious |-> "1.5rem"][level]
      [] density = "spacious" ->
            [compact |-> "0.75rem", standard |-> "1.5rem", spacious |-> "2rem"][level]

getTooltipDelay(guidance) == [minimal |-> 1000, contextual |-> 500, strong |-> 200][guidance]

getTooltipDuration(guidance) == [minimal |-> 2000, contextual |-> 4000, strong |-> 6000][guidance]

getTransitionType(sensitivity) ==
    IF sensitivity = "high" THEN "linear"
    ELSE IF sensitivity = "low" THEN "ease"
    ELSE "ease-out"

\* variant: the comparisons are not strict
getMaxItemsPerChunk_NotStrict(loadThreshold) ==
    IF RLeq(<<7, 10>>, loadThreshold) THEN 3
    ELSE IF RLeq(<<2, 5>>, loadThreshold) THEN 5
    ELSE 7

getMaxItemsPerChunk(loadThreshold) ==
    IF RLess(<<7, 10>>, loadThreshold) THEN 3
    ELSE IF RLess(<<2, 5>>, loadThreshold) THEN 5
    ELSE 7

generateAdaptationRules(g) ==
    [animationFast |-> getAnimationDuration(g, "fast"),
     animationBalanced |-> getAnimationDuration(g, "balanced"),
     animationSlow |-> getAnimationDuration(g, "slow"),
     spacingCompact |-> getSpacing(g["layoutDensityTolerance"], "compact"),
     spacingStandard |-> getSpacing(g["layoutDensityTolerance"], "standard"),
     spacingSpacious |-> getSpacing(g["layoutDensityTolerance"], "spacious"),
     buttonSizeSmall |-> IF RLess(<<4, 5>>, g["clickPrecision"]) THEN "2rem" ELSE "2.5rem",
     buttonSizeStandard |-> IF RLess(<<4, 5>>, g["clickPrecision"]) THEN "2.5rem" ELSE "3rem",
     buttonSizeLarge |-> IF RLess(<<4, 5>>, g["clickPrecision"]) THEN "3rem" ELSE "3.5rem",
     tooltipDelay |-> getTooltipDelay(g["guidanceNeed"]),
     tooltipDuration |-> getTooltipDuration(g["guidanceNeed"]),
     transitionType |-> getTransitionType(g["motionSensitivity"]),
     maxItemsPerChunk |-> getMaxItemsPerChunk(g["cognitiveLoadThreshold"]),
     autoFocusEnabled |-> g["preferredInteractionSpeed"] = "fast"]

\* the genomes the rules are generated from: every value of the four labelled traits,
\* load thresholds on, next to and away from 0.4 and 0.7, a low and a high click precision
RuleLoads == {<<-3, 5>>, Zero, <<2, 5>>, <<41, 100>>, <<1, 2>>, <<7, 10>>, <<71, 100>>, One}

RulePrecisions == {<<1, 2>>, <<9, 10>>}

RuleGenome(motion, speed, density, guidance, load, precision) ==
    Spread(DEFAULT_GENOME(Loaded),
           [k \in Traits \cup {"clickPrecision"} |->
               CASE k = "motionSensitivity" -> motion
                 [] k = "preferredInteractionSpeed" -> speed
                 [] k = "layoutDensityTolerance" -> density
                 [] k = "guidanceNeed" -> guidance
                 [] k = "cognitiveLoadThreshold" -> load
                 [] k = "clickPrecision" -> precision])

RuleGenomes ==
    {RuleGenome(motion, speed, density, guidance, load, precision) :
        motion \in {"low", "medium", "high"}, speed \in {"slow", "balanced", "fast"},
        density \in {"compact", "standard", "spacious"},
        guidance \in {"minimal", "contextual", "strong"},
        load \in RuleLoads, precision \in RulePrecisions}

InitRules ==
    /\ genome \in RuleGenomes
    /\ now = Loaded
    /\ timers = <<>>
    /\ cycles = 0
    /\ external = 0
    /\ last = [op |-> "init", trait |-> "", arg |-> 0,
               before |-> genome, at |-> Loaded, ret |-> TRUE]
    /\ buffer = <<>>
    /\ emitted = 0
    /\ updateIntervalRef = 0
    /\ cycleTimers = {}
    /\ armed = 0
    /\ sent = <<>>
    /\ notified = <<>>
    /\ recent = <<>>
    /\ pauseEnded = FALSE

\* generateAdaptationRules(genome) in the provider's effect; ret is the rules object
GenerateRules ==
    /\ last' = [Did("rules", "", 0) EXCEPT !.ret = generateAdaptationRules(genome)]
    /\ UNCHANGED <<genome, now, timers, cycles, external, captureVars>>

NextRules == GenerateRules

SpecRules == InitRules /\ [][NextRules]_vars

(***************************************************************************)
(* Vocabulary of the properties.  A property about a cycle is stated on    *)
(* the state after it: last.before is the genome the cycle started from,   *)
(* last.arg its window and last.at its time.                               *)
(***************************************************************************)
Cycled == last.op = "cycle"

Before == last.before

BMeta(trait) == Before[MetaKey(trait)]

AMeta(trait) == genome[MetaKey(trait)]

\* the candidate of a trait's estimator on a window: <<>> or <<[value, confidence]>>
Candidate(trait, signals) ==
    LET clicks == OfType(signals, "click")
        cursors == OfType(signals, "cursor")
        scrolls == OfType(signals, "scroll")
        hovers == OfType(signals, "hover")
    IN  CASE trait = "motionSensitivity" -> MotionCandidate(scrolls, cursors, clicks)
          [] trait = "preferredInteractionSpeed" -> SpeedCandidate(clicks, cursors, hovers)
          [] trait = "layoutDensityTolerance" -> DensityCandidate(clicks, cursors)
          [] trait = "guidanceNeed" -> GuidanceCandidate(hovers, clicks)
          [] trait = "cognitiveLoadThreshold" -> LoadCandidate(signals)

Cand(trait) == Candidate(trait, Windows[last.arg])

HasCand(trait) == Cycled /\ Cand(trait) # <<>>

\* equal to the current value; within 0.2 of it for cognitive load
StableCand(trait) ==
    IF trait = "cognitiveLoadThreshold"
    THEN RLess(RAbs(RSub(Cand(trait)[1].value, Before[trait])), <<1, 5>>)
    ELSE Cand(trait)[1].value = Before[trait]

Sticky(meta) == meta.state \in {"locked", "paused"}

\* observed confidence below 0.6 with samples already counted
DecayCase(trait) ==
    /\ HasCand(trait)
    /\ RLess(Cand(trait)[1].confidence, <<3, 5>>)
    /\ BMeta(trait).sampleCount > 0

\* observed confidence at least 0.6, or a cold start
AdoptCase(trait) ==
    /\ HasCand(trait)
    /\ (RLeq(<<3, 5>>, Cand(trait)[1].confidence) \/ BMeta(trait).sampleCount = 0)

\* the thresholds of the state transition, with strict comparisons
Thresholds(confidence, sampleCount, prior) ==
    IF RLess(<<4, 5>>, confidence) THEN "confident"
    ELSE IF RLess(<<1, 2>>, confidence) THEN "tentative"
    ELSE IF sampleCount < 10 THEN "observing"
    ELSE prior

Rank(state) ==
    CASE state = "observing" -> 1
      [] state = "tentative" -> 2
      [] state = "confident" -> 3
      [] OTHER -> 0

\* the number of records of the slice an estimator gates on
GateCount(trait, signals) ==
    CASE trait = "motionSensitivity" -> Len(OfType(signals, "scroll"))
      [] trait \in {"preferredInteractionSpeed", "layoutDensityTolerance"} ->
            Len(OfType(signals, "click"))
      [] trait = "guidanceNeed" -> Len(OfType(signals, "hover"))
      [] trait = "cognitiveLoadThreshold" -> Len(signals)

(***************************************************************************)
(* C1.  A locked trait's value and whole metadata record are unchanged by  *)
(* an inference cycle.                                                     *)
(***************************************************************************)
C1_LockedUnchangedByCycle ==
    Cycled =>
        \A trait \in Traits :
            BMeta(trait).state = "locked" =>
                genome[trait] = Before[trait] /\ AMeta(trait) = BMeta(trait)

(***************************************************************************)
(* C2.  A trait's state enters locked only by lockTrait (or a replaced     *)
(* genome) and leaves it only by unlockTrait (or a replaced genome); an    *)
(* inference cycle moves no state into or out of locked or paused.         *)
(***************************************************************************)
C2_CycleNeverAssignsOrClearsSticky ==
    \A trait \in Traits :
        /\ (BMeta(trait).state = "locked" /\ AMeta(trait).state # "locked")
               => last.op \in {"unlock", "reset", "import"}
        /\ (BMeta(trait).state # "locked" /\ AMeta(trait).state = "locked")
               => last.op \in {"lock", "import"}
        /\ ((BMeta(trait).state = "paused") # (AMeta(trait).state = "paused"))
               => last.op \in {"reset", "import"}

(***************************************************************************)
(* C3.  Every trait's stored confidence is within [0,1] in every reachable *)
(* state.                                                                  *)
(***************************************************************************)
C3_ConfidenceInUnitInterval ==
    \A trait \in Traits :
        RLeq(Zero, AMeta(trait).confidence) /\ RLeq(AMeta(trait).confidence, One)

(***************************************************************************)
(* C4.  In a cycle whose candidate has observed confidence below 0.6 for a *)
(* trait with sampleCount > 0 the candidate is not adopted: the value is   *)
(* the one before the cycle, the confidence 0.95 times the previous one    *)
(* and the sampleCount unchanged.                                          *)
(***************************************************************************)
C4_DecayDoesNotAdopt ==
    \A trait \in Traits :
        DecayCase(trait) =>
            /\ genome[trait] = Before[trait]
            /\ AMeta(trait).confidence = RMul(BMeta(trait).confidence, <<19, 20>>)
            /\ AMeta(trait).sampleCount = BMeta(trait).sampleCount

(***************************************************************************)
(* C5.  In a cycle where a trait is neither locked nor paused and the      *)
(* observed confidence is at least 0.6 or sampleCount is 0, the candidate  *)
(* is adopted, confidence becomes min(1, c + 0.1*observed) if the          *)
(* candidate is stable and max(0, c - 0.1*observed) otherwise, sampleCount *)
(* grows by exactly 1 and lastUpdated is the current time.                 *)
(***************************************************************************)
C5_AdoptionStep ==
    \A trait \in Traits :
        (AdoptCase(trait) /\ ~Sticky(BMeta(trait))) =>
            LET step == RMul(Cand(trait)[1].confidence, <<1, 10>>)
                c == BMeta(trait).confidence
            IN  /\ genome[trait] = Cand(trait)[1].value
                /\ AMeta(trait).confidence =
                       IF StableCand(trait) THEN RMin(One, RAdd(c, step))
                       ELSE RMax(Zero, RSub(c, step))
                /\ AMeta(trait).sampleCount = BMeta(trait).sampleCount + 1
                /\ AMeta(trait).lastUpdated = last.at

\* a stable and an unstable candidate adopted in one cycle
C5_Witness ==
    /\ \E trait \in Traits :
          AdoptCase(trait) /\ ~Sticky(BMeta(trait)) /\ StableCand(trait)
              /\ RLess(BMeta(trait).confidence, AMeta(trait).confidence)
    /\ \E trait \in Traits :
          AdoptCase(trait) /\ ~Sticky(BMeta(trait)) /\ ~StableCand(trait)
              /\ RLess(AMeta(trait).confidence, BMeta(trait).confidence)

C7_StableNeverDecreases ==
    \A trait \in Traits :
        (HasCand(trait) /\ StableCand(trait)) =>
            RLeq(BMeta(trait).confidence, AMeta(trait).confidence)

(***************************************************************************)
(* C7 as amended.  In a cycle whose candidate is stable and is taken by    *)
(* the adoption branch the stored confidence is afterwards at least        *)
(* min(1, confidence before): it does not decrease until it saturates at 1.*)
(***************************************************************************)
C7_StableAdoptionNeverDecreases ==
    \A trait \in Traits :
        (AdoptCase(trait) /\ StableCand(trait)) =>
            RLeq(RMin(One, BMeta(trait).confidence), AMeta(trait).confidence)

\* a stable candidate raised a confidence that an earlier cycle had already raised
C7_Witness ==
    \E trait \in Traits :
        /\ AdoptCase(trait) /\ StableCand(trait)
        /\ BMeta(trait).sampleCount > 0
        /\ RLess(Zero, BMeta(trait).confidence)
        /\ RLess(BMeta(trait).confidence, AMeta(trait).confidence)

(***************************************************************************)
(* C8.  When the slice an estimator gates on has fewer than 10 records the *)
(* trait's value and metadata after the cycle are those before it.         *)
(***************************************************************************)
C8_BelowFloorLeavesTrait ==
    Cycled =>
        \A trait \in Traits :
            GateCount(trait, Windows[last.arg]) < 10 =>
                genome[trait] = Before[trait] /\ AMeta(trait) = BMeta(trait)

\* one trait below its floor is kept while another trait of the same cycle is updated
C8_Witness ==
    /\ Cycled
    /\ \E trait \in Traits :
          GateCount(trait, Windows[last.arg]) \in 1..9 /\ AMeta(trait) = BMeta(trait)
    /\ \E trait \in Traits : AMeta(trait) # BMeta(trait)

(***************************************************************************)
(* C9 as claimed.  For traits that are not locked or paused, state is      *)
(* monotonic in confidence and sampleCount: a record with confidence and   *)
(* sampleCount at least those of another has a state not lower.            *)
(***************************************************************************)
C9_StateMonotone ==
    \A a, b \in Traits :
        (/\ ~Sticky(AMeta(a)) /\ ~Sticky(AMeta(b))
         /\ RLeq(AMeta(b).confidence, AMeta(a).confidence)
         /\ AMeta(b).sampleCount <= AMeta(a).sampleCount)
            => Rank(AMeta(b).state) <= Rank(AMeta(a).state)

(***************************************************************************)
(* C9 as amended.  For traits that are not locked or paused and had fewer  *)
(* than 10 samples, the state written by an adoption step is monotonic in  *)
(* the updated confidence: of two such records the one with the higher     *)
(* confidence has a state not lower.                                       *)
(***************************************************************************)
FreshlyAdopted(trait) ==
    AdoptCase(trait) /\ ~Sticky(BMeta(trait)) /\ BMeta(trait).sampleCount < 10

C9_AdoptedStateMonotone ==
    \A a, b \in Traits :
        (/\ FreshlyAdopted(a) /\ FreshlyAdopted(b)
         /\ RLeq(AMeta(b).confidence, AMeta(a).confidence))
            => Rank(AMeta(b).state) <= Rank(AMeta(a).state)

\* two traits adopted in one cycle, the more confident one in a strictly higher state
C9_Witness ==
    \E a, b \in Traits :
        /\ FreshlyAdopted(a) /\ FreshlyAdopted(b)
        /\ RLess(AMeta(b).confidence, AMeta(a).confidence)
        /\ Rank(AMeta(b).state) < Rank(AMeta(a).state)

(***************************************************************************)
(* C10.  After n appends to an empty buffer the buffer holds exactly       *)
(* min(n, 1000) records, the most recent ones in insertion order; the      *)
(* 1001st append evicts the oldest record and no other.                    *)
(***************************************************************************)
C10_BufferKeepsMostRecent ==
    LET held == IF emitted < 1000 THEN emitted ELSE 1000
    IN  /\ Len(buffer) = held
        /\ \A i \in 1..held : buffer[i] = EmittedSignal(emitted - held + i)

\* the 1001st append has been made
C10_Witness ==
    /\ emitted = 1001
    /\ Len(buffer) = 1000
    /\ buffer[1] = EmittedSignal(2)
    /\ buffer[1000] = EmittedSignal(1001)

(***************************************************************************)
(* Vocabulary of the properties of getRecentSignals: a recorded call r has *)
(* the buffer it read (r.of), its window, its clock value and its result.  *)
(***************************************************************************)
\* the positions of the buffer at or after the cutoff
Kept(r) == {i \in 1..Len(r.of) : r.of[i].timestamp >= r.at - r.windowMs}

\* the j-th smallest member of a set of numbers
Nth(S, j) == CHOOSE i \in S : Cardinality({x \in S : x < i}) = j - 1

(***************************************************************************)
(* C11.  getRecentSignals(w) returns exactly the buffered records whose    *)
(* timestamp is at least now - w, each once and in the buffer's order.     *)
(***************************************************************************)
C11_RecentIsTheSuffixByCutoff ==
    \A n \in 1..Len(recent) :
        /\ Len(recent[n].result) = Cardinality(Kept(recent[n]))
        /\ \A j \in 1..Len(recent[n].result) :
               recent[n].result[j] = recent[n].of[Nth(Kept(recent[n]), j)]

\* a read that drops an older record, keeps one exactly at the cutoff and one after it
C11_Witness ==
    /\ recent # <<>>
    /\ \E i \in 1..Len(recent[1].of) :
          recent[1].of[i].timestamp < recent[1].at - recent[1].windowMs
    /\ \E i \in Kept(recent[1]) :
          recent[1].of[i].timestamp = recent[1].at - recent[1].windowMs
    /\ \E i \in Kept(recent[1]) :
          recent[1].of[i].timestamp > recent[1].at - recent[1].windowMs
    /\ Len(recent[1].result) >= 2

Payload == ImportTexts[last.arg]

C13_ImportAllOrNothing ==
    last.op = "import" =>
        IF \/ ~Payload.parses
           \/ "version" \notin DOMAIN Payload.value
           \/ "createdAt" \notin DOMAIN Payload.value
        THEN ~last.ret /\ genome = Before
        ELSE last.ret /\ genome = Payload.value

(***************************************************************************)
(* C13 as amended.  importGenome returns false and leaves the genome as it *)
(* was for a payload that is unparseable or whose version or createdAt is  *)
(* missing or falsy (an empty version, a createdAt of 0); for every other  *)
(* payload it returns true and the genome is the payload as a whole.       *)
(***************************************************************************)
Falsy(obj, k, empty) == k \notin DOMAIN obj \/ obj[k] = empty

C13_ImportAllOrNothingOnTruthy ==
    last.op = "import" =>
        IF \/ ~Payload.parses
           \/ Falsy(Payload.value, "version", "")
           \/ Falsy(Payload.value, "createdAt", 0)
        THEN ~last.ret /\ genome = Before
        ELSE last.ret /\ genome = Payload.value

\* an accepted payload replaced a genome that had a field the payload lacks
C13_Witness ==
    /\ last.op = "import" /\ last.ret
    /\ "pausedUntil" \in DOMAIN Before
    /\ "pausedUntil" \notin DOMAIN genome
    /\ genome = Payload.value

(***************************************************************************)
(* C14.  unlockTrait on a locked trait sets its state to confident if its  *)
(* sampleCount is greater than 10 and to tentative otherwise, whatever its *)
(* confidence, and changes no other field; on a trait that is not locked   *)
(* it changes nothing.                                                     *)
(***************************************************************************)
WasLocked(trait) == MetaKey(trait) \in DOMAIN Before /\ BMeta(trait).state = "locked"

C14_UnlockBySampleCount ==
    last.op = "unlock" =>
        IF WasLocked(last.trait)
        THEN /\ AMeta(last.trait).state =
                    IF BMeta(last.trait).sampleCount > 10 THEN "confident" ELSE "tentative"
             /\ AMeta(last.trait).confidence = BMeta(last.trait).confidence
             /\ AMeta(last.trait).sampleCount = BMeta(last.trait).sampleCount
             /\ AMeta(last.trait).lastUpdated = BMeta(last.trait).lastUpdated
             /\ DOMAIN genome = DOMAIN Before
             /\ \A k \in DOMAIN Before : k # MetaKey(last.trait) => genome[k] = Before[k]
        ELSE genome = Before

\* a trait with exactly ten samples and a confidence above 0.8 is unlocked to tentative
C14_Witness ==
    /\ last.op = "unlock" /\ WasLocked(last.trait)
    /\ BMeta(last.trait).sampleCount = 10
    /\ RLess(<<4, 5>>, BMeta(last.trait).confidence)
    /\ AMeta(last.trait).state = "tentative"

(***************************************************************************)
(* C20.  After updateGenome(updates) either every field present in updates *)
(* has the update's value in the genome or every one has the value it had  *)
(* before: no trait's metadata from an update is stored with that trait's  *)
(* pre-update value.                                                       *)
(***************************************************************************)
CycleUpdates == inferTraits(Before, Windows[last.arg], last.at)

C20_UpdateAllOrNothing ==
    Cycled =>
        \/ \A k \in DOMAIN CycleUpdates : genome[k] = CycleUpdates[k]
        \/ \A k \in DOMAIN CycleUpdates : genome[k] = Before[k]

(***************************************************************************)
(* Vocabulary of the properties of the provider's cycle: after a timeout   *)
(* callback, last.before is the genome it started from and last.at its     *)
(* time; the buffer is the one it read.                                    *)
(***************************************************************************)
TimerFired == last.op = "timer"

\* the window the callback reads
FiredWindow == getRecentSignals(buffer, RECENT_WINDOW_MS, last.at)

\* the genome after inferTraits on that window and updateGenome
Applied == updateGenome(Before, inferTraits(Before, FiredWindow, last.at), last.at)

(***************************************************************************)
(* C15.  While learning is paused an inference cycle whose timer fires     *)
(* changes no trait value, no trait metadata and no derived metric.        *)
(***************************************************************************)
C15_PausedCycleChangesNothing ==
    (TimerFired /\ ~Before["learningEnabled"]) =>
        \A k \in Traits \cup {MetaKey(x) : x \in Traits} \cup DerivedMetrics :
            genome[k] = Before[k]

\* a timer fired during a pause on a window whose cycle would have changed a derived metric
C15_Witness ==
    /\ TimerFired /\ ~Before["learningEnabled"]
    /\ FiredWindow # <<>>
    /\ Applied["hoverDwellTime"] # Before["hoverDwellTime"]

(***************************************************************************)
(* C16.  After a pause has ended the next inference cycle updates again:   *)
(* its timer callback, with learning enabled and a record in the recent    *)
(* window, applies inferTraits on that window to the genome.               *)
(***************************************************************************)
C16_CycleUpdatesAfterPause ==
    (TimerFired /\ pauseEnded /\ Before["learningEnabled"] /\ FiredWindow # <<>>) =>
        genome = Applied

(***************************************************************************)
(* C17.  With learning enabled, when the timer armed by a signal fires     *)
(* with at least one record in the last-30-seconds window, inferTraits is  *)
(* run on that window and its update applied through updateGenome.         *)
(***************************************************************************)
C17_CycleAppliesInference ==
    (TimerFired /\ Before["learningEnabled"] /\ FiredWindow # <<>>) => genome = Applied

(***************************************************************************)
(* C18.  Inference cycles are serialized: at most one cycle timer is       *)
(* pending, it is the one updateIntervalRef holds, and a timer is armed    *)
(* only when none is pending and the ref has been reset by the previous    *)
(* callback.                                                               *)
(***************************************************************************)
C18_OneCycleTimer ==
    /\ [](Cardinality(cycleTimers) <= 1)
    /\ [](\A timer \in cycleTimers : timer.id = updateIntervalRef)
    /\ [][armed' # armed => (updateIntervalRef = 0 /\ cycleTimers = {} /\ cycles = armed)]_vars

\* a signal arrived while a timer was pending, and a second timer was armed after the callback
C18_Witness ==
    /\ armed = 2
    /\ emitted = 3
    /\ cycles = 1
    /\ Cardinality(cycleTimers) = 1

(***************************************************************************)
(* C19.  No appended signal is lost: the signal passed to emit is the last *)
(* record of the buffer when the listeners are called, and the buffer is   *)
(* always the most recent min(n, 1000) of the n signals emitted since it   *)
(* was last cleared, whatever reads and timer callbacks came in between.   *)
(***************************************************************************)
Newest(seq, n) == SubSeq(seq, Len(seq) - n + 1, Len(seq))

C19_NoSignalLost ==
    /\ [][emitted' # emitted =>
              (notified' # <<>> /\ notified'[Len(notified')] = sent'[Len(sent')])]_vars
    /\ [](buffer = Newest(sent, IF Len(sent) < 1000 THEN Len(sent) ELSE 1000))

\* the signals emitted before a read and a timer callback, and the one that armed the
\* next timer after them, are all in the buffer
C19_Witness ==
    /\ cycles >= 1
    /\ recent # <<>>
    /\ Len(recent[1].of) \in 1..(Len(buffer) - 1)
    /\ Len(buffer) = emitted
    /\ armed = 2

(***************************************************************************)
(* C21.  Every trait starts in state observing with confidence 0 and       *)
(* sampleCount 0, and resetGenome restores this default for all five       *)
(* traits, with the default values and learning enabled, from any state:   *)
(* also from one with locked traits or with learning paused.               *)
(***************************************************************************)
Pristine(g) ==
    \A trait \in Traits :
        /\ g[trait] = DEFAULT_GENOME(Loaded)[trait]
        /\ g[MetaKey(trait)].state = "observing"
        /\ g[MetaKey(trait)].confidence = Zero
        /\ g[MetaKey(trait)].sampleCount = 0

C21_ResetRestoresDefaults ==
    /\ last.op = "init" => Pristine(genome)
    /\ last.op = "reset" =>
          /\ Pristine(genome)
          /\ genome["learningEnabled"] = TRUE
          /\ "pausedUntil" \notin DOMAIN genome

\* a reset of a genome that had a locked trait and a learned value
C21_Witness ==
    /\ last.op = "reset"
    /\ \E trait \in Traits : BMeta(trait).state = "locked"
    /\ \E trait \in Traits : Before[trait] # DEFAULT_GENOME(Loaded)[trait]
    /\ Pristine(genome)

(***************************************************************************)
(* Vocabulary of the properties of the engine on its own: last.arg is the  *)
(* window of the latest call of inferTraits and Updates is what it         *)
(* returned.                                                               *)
(***************************************************************************)
Inferred == last.op = "infer"

Window == EngineWindows[last.arg]

Updates == inferTraits(Before, Window, last.at)

WCand(trait) == Candidate(trait, Window)

(***************************************************************************)
(* C22.  The partial update returned by inferTraits always has the four    *)
(* derived metrics; it has a trait's value key exactly when the trait's    *)
(* estimator produced a candidate, and a trait's value key and metadata    *)
(* key are present together or not at all.                                 *)
(***************************************************************************)
C22_UpdateKeys ==
    Inferred =>
        /\ DerivedMetrics \subseteq DOMAIN Updates
        /\ \A trait \in Traits :
              /\ trait \in DOMAIN Updates <=> WCand(trait) # <<>>
              /\ trait \in DOMAIN Updates <=> MetaKey(trait) \in DOMAIN Updates

\* an update with some traits in it and others not
C22_Witness ==
    /\ Inferred
    /\ \E trait \in Traits : {trait, MetaKey(trait)} \subseteq DOMAIN Updates
    /\ \E trait \in Traits : {trait, MetaKey(trait)} \cap DOMAIN Updates = {}
    /\ \A k \in DerivedMetrics : genome[k] = Updates[k]

(***************************************************************************)
(* C23.  A window of sixty clicks, each with missDistance 0,               *)
(* correctionCount 0 and timeToClick 150, and nothing else, gives a speed  *)
(* score of at least 0.7, the interaction speed fast and a click           *)
(* precision of 1.                                                         *)
(***************************************************************************)
QuickClicks(signals) ==
    /\ Len(signals) = 60
    /\ \A i \in 1..Len(signals) :
          /\ signals[i].type = "click"
          /\ "missDistance" \in DOMAIN signals[i].data
          /\ signals[i].data.missDistance = 0
          /\ signals[i].data.correctionCount = 0
          /\ signals[i].data.timeToClick = 150

C23_QuickClicksAreFast ==
    (Inferred /\ QuickClicks(Window)) =>
        /\ RLeq(<<7, 10>>, SpeedScore(OfType(Window, "click"), OfType(Window, "cursor"),
                                      OfType(Window, "hover")))
        /\ Updates["preferredInteractionSpeed"] = "fast"
        /\ Updates["clickPrecision"] = One

(***************************************************************************)
(* C24.  The derived metrics are memoryless: on the same window,           *)
(* inferTraits returns the same clickPrecision, cursorSmoothness,          *)
(* scrollBehavior and hoverDwellTime whatever the genome it is given.      *)
(***************************************************************************)
C24_DerivedMetricsMemoryless ==
    Inferred =>
        \A g \in EngineGenomes : \A k \in DerivedMetrics :
            inferTraits(g, Window, last.at)[k] = Updates[k]

\* a call on a genome that had learned other derived metrics before
C24_Witness ==
    /\ Inferred
    /\ Before \notin EngineGenomes
    /\ \E k \in DerivedMetrics : Before[k] # Updates[k]
    /\ \A k \in DerivedMetrics : genome[k] = Updates[k]

(***************************************************************************)
(* C27.  The cognitive-load value stored by an inference cycle is within   *)
(* [0,1] for every window, also for one whose cursor jitter is negative    *)
(* or above 20.                                                            *)
(***************************************************************************)
C27_LoadInUnitInterval ==
    Inferred =>
        /\ RLeq(Zero, genome["cognitiveLoadThreshold"])
        /\ RLeq(genome["cognitiveLoadThreshold"], One)

(***************************************************************************)
(* C29.  The observed confidence of an estimator is min(1, count/N), with  *)
(* N = 50 scrolls, 30 clicks, 40 clicks, 30 hovers and 100 signals for     *)
(* the five traits; for a trait with sampleCount > 0 a cycle takes the     *)
(* decay branch exactly when the count is below 30, 18, 24, 18 and 60,     *)
(* and the adoption branch otherwise.                                      *)
(***************************************************************************)
FullCount(trait) ==
    CASE trait = "motionSensitivity" -> 50
      [] trait = "preferredInteractionSpeed" -> 30
      [] trait = "layoutDensityTolerance" -> 40
      [] trait = "guidanceNeed" -> 30
      [] trait = "cognitiveLoadThreshold" -> 100

DecayBelow(trait) ==
    CASE trait = "motionSensitivity" -> 30
      [] trait = "preferredInteractionSpeed" -> 18
      [] trait = "layoutDensityTolerance" -> 24
      [] trait = "guidanceNeed" -> 18
      [] trait = "cognitiveLoadThreshold" -> 60

\* the decay branch has run: the confidence is multiplied by 0.95, nothing else changes
TookDecay(trait) ==
    AMeta(trait) = [BMeta(trait) EXCEPT !.confidence = RMul(@, <<19, 20>>)]

\* the adoption branch has run: the sample is counted
TookAdoption(trait) == AMeta(trait).sampleCount = BMeta(trait).sampleCount + 1

BranchByCount(trait) ==
    /\ GateCount(trait, Window) < DecayBelow(trait) <=> TookDecay(trait)
    /\ GateCount(trait, Window) >= DecayBelow(trait) <=> TookAdoption(trait)

ObservedAsCounted(trait) ==
    WCand(trait) # <<>> =>
        WCand(trait)[1].confidence = RMin(One, Rat(GateCount(trait, Window), FullCount(trait)))

\* as stated: for every count (a confidence of 0 is left out: its decay changes nothing)
C29_BranchByCount ==
    Inferred =>
        \A trait \in Traits :
            /\ ObservedAsCounted(trait)
            /\ (BMeta(trait).sampleCount > 0 /\ BMeta(trait).confidence # Zero)
                   => BranchByCount(trait)

\* for every count of at least MIN_SAMPLES, below which the estimator returns null
C29_BranchByCountAboveFloor ==
    Inferred =>
        \A trait \in Traits :
            /\ ObservedAsCounted(trait)
            /\ WCand(trait) # <<>> <=> GateCount(trait, Window) >= MIN_SAMPLES
            /\ (BMeta(trait).sampleCount > 0 /\ GateCount(trait, Window) >= MIN_SAMPLES)
                   => BranchByCount(trait)

\* thirty scrolls adopted and twelve clicks decayed in one cycle
C29_Witness ==
    /\ Inferred
    /\ BMeta("motionSensitivity").sampleCount > 0
    /\ GateCount("motionSensitivity", Window) = DecayBelow("motionSensitivity")
    /\ TookAdoption("motionSensitivity")
    /\ BMeta("preferredInteractionSpeed").sampleCount > 0
    /\ GateCount("preferredInteractionSpeed", Window) \in
           MIN_SAMPLES..(DecayBelow("preferredInteractionSpeed") - 1)
    /\ TookDecay("preferredInteractionSpeed")

(***************************************************************************)
(* C30.  Motion sensitivity is bucketed from                               *)
(* 0.4*reversalRate + 0.3*[avgJitter > 10] + 0.3*[avgCorrections > 1]:     *)
(* above 0.6 high, above 0.3 medium, else low; a window in which every     *)
(* scroll has a reversal, with jitter and corrections below their          *)
(* thresholds, gives medium.                                               *)
(***************************************************************************)
\* the score, a scroll counting as reversing from `reversals` reversals on
MotionScore(signals, reversals) ==
    RAdd(RAdd(RMul(Rat(CountIf(OfType(signals, "scroll"),
                               LAMBDA s : s.data.reversalCount >= reversals),
                       Max(1, Len(OfType(signals, "scroll")))),
                   <<2, 5>>),
              IF RLess(<<10, 1>>, Avg([i \in 1..Len(OfType(signals, "cursor")) |->
                                          OfType(signals, "cursor")[i].data.jitter], Zero))
              THEN <<3, 10>> ELSE Zero),
         IF RLess(One, Avg([i \in 1..Len(OfType(signals, "click")) |->
                               OfType(signals, "click")[i].data.correctionCount], Zero))
         THEN <<3, 10>> ELSE Zero)

MotionBucket(score) ==
    IF RLess(<<3, 5>>, score) THEN "high"
    ELSE IF RLess(<<3, 10>>, score) THEN "medium"
    ELSE "low"

Generated == last.op = "rules"

Rules == last.ret

TierBase(tier) == CASE tier = "fast" -> 150 [] tier = "balanced" -> 250 [] tier = "slow" -> 400

MotionFactor(motion) ==
    CASE motion = "high" -> <<3, 5>> [] motion = "low" -> <<6, 5>> [] motion = "medium" -> One

SpeedFactor(speed) ==
    CASE speed = "fast" -> <<4, 5>> [] speed = "slow" -> <<13, 10>> [] speed = "balanced" -> One

TierDuration(rules, tier) ==
    CASE tier = "fast" -> rules.animationFast
      [] tier = "balanced" -> rules.animationBalanced
      [] tier = "slow" -> rules.animationSlow

\* k is the integer nearest to r
Nearest(k, r) == RLeq(RAbs(RSub(<<k, 1>>, r)), <<1, 2>>)

C25_AnimationDuration ==
    Generated =>
        \A tier \in {"fast", "balanced", "slow"} :
            Nearest(TierDuration(Rules, tier),
                    RMul(RMul(<<TierBase(tier), 1>>, MotionFactor(Before["motionSensitivity"])),
                         SpeedFactor(Before["preferredInteractionSpeed"])))

\* rules of a motion-sensitive fast user whose other fields are not the default ones
C25_Witness ==
    /\ Generated
    /\ Before["motionSensitivity"] = "high"
    /\ Before["preferredInteractionSpeed"] = "fast"
    /\ Before["layoutDensityTolerance"] = "compact"
    /\ Before["clickPrecision"] = <<9, 10>>
    /\ Rules.animationFast = 72 /\ Rules.animationBalanced = 120 /\ Rules.animationSlow = 192

(***************************************************************************)
(* C26.  maxItemsPerChunk is 3 for a cognitive-load threshold above 0.7,   *)
(* 5 for one above 0.4 and at most 0.7, and 7 otherwise: 0.7 gives 5 and   *)
(* 0.4 gives 7.                                                            *)
(***************************************************************************)
C26_ChunkSize ==
    Generated =>
        /\ Rules.maxItemsPerChunk =
              IF RLess(<<7, 10>>, Before["cognitiveLoadThreshold"]) THEN 3
              ELSE IF RLess(<<2, 5>>, Before["cognitiveLoadThreshold"]) THEN 5
              ELSE 7
        /\ Before["cognitiveLoadThreshold"] = <<7, 10>> => Rules.maxItemsPerChunk = 5
        /\ Before["cognitiveLoadThreshold"] = <<2, 5>> => Rules.maxItemsPerChunk = 7

\* rules generated for a threshold of exactly 0.7
C26_Witness ==
    /\ Generated
    /\ genome["cognitiveLoadThreshold"] = <<7, 10>>
    /\ Rules.maxItemsPerChunk = 5

(***************************************************************************)
(* C28.  An external reset clears the signal buffer, so the first cycle    *)
(* after resetGenome uses only signals appended after the reset; after     *)
(* clearBuffer the buffer is empty and getRecentSignals returns no         *)
(* records.                                                                *)
(***************************************************************************)
ResetStep == last'.op = "reset" /\ external' = external + 1

ClearStep == sent # <<>> /\ sent' = <<>>

\* the first timeout callback after a reset
CycleAfterReset == last.op = "reset" /\ last'.op = "timer" /\ cycles' = cycles + 1

\* the records the callback hands to inferTraits
UsedByCycle ==
    IF LearningGate(genome) THEN getRecentSignals(buffer, RECENT_WINDOW_MS, now) ELSE <<>>

C28_ResetClearsBuffer ==
    /\ [][ResetStep => buffer' = <<>>]_vars
    /\ [][CycleAfterReset =>
            \A i \in 1..Len(UsedByCycle) : UsedByCycle[i] \in {sent[j] : j \in 1..Len(sent)}
                                           /\ UsedByCycle[i].timestamp >= last.at]_vars
    /\ [][ClearStep =>
            /\ buffer' = <<>>
            /\ \A w \in ReadWindows : getRecentSignals(buffer', w, now') = <<>>]_vars

(***************************************************************************)
(* C31.  A change of the stored genome while a cycle timer is pending does *)
(* not disable inference: the pending timer may be cancelled, but a signal *)
(* emitted afterwards arms a new timer, and a cycle fires.  Timers are     *)
(* armed only by the subscriber during an emit, so after every emit a      *)
(* timer has to be pending: the one already armed or a new one.            *)
(***************************************************************************)
EmitStep == emitted' = emitted + 1

C31_SignalArmsTimer ==
    [][EmitStep => \E timer \in cycleTimers' : timer.id = updateIntervalRef']_vars

(***************************************************************************)
(* C32.  The automatic resume of a timed pause ends only the pause that    *)
(* scheduled it: once an indefinite pauseLearning() is in effect,          *)
(* learningEnabled stays false until resumeLearning or resetGenome is      *)
(* called.  (A genome replaced by importGenome is outside the              *)
(* interleavings the property is about.)                                   *)
(***************************************************************************)
IndefinitelyPaused(g) == ~g["learningEnabled"] /\ "pausedUntil" \notin DOMAIN g

C32_IndefinitePauseHolds ==
    [][(IndefinitelyPaused(genome) /\ genome'["learningEnabled"])
          => last'.op \in {"resume", "reset", "import"}]_vars

(***************************************************************************)
(* C33.  After an importGenome call that returns true the stored genome    *)
(* is well formed: the five traits are present with values of their        *)
(* domains (the cognitive load within [0,1]), each with a metadata record  *)
(* whose confidence is within [0,1], whose sampleCount is not negative     *)
(* and whose state is one of the five learning states.                     *)
(***************************************************************************)
TraitDomain(trait) ==
    CASE trait = "motionSensitivity" -> {"low", "medium", "high"}
      [] trait = "preferredInteractionSpeed" -> {"slow", "balanced", "fast"}
      [] trait = "layoutDensityTolerance" -> {"compact", "standard", "spacious"}
      [] trait = "guidanceNeed" -> {"minimal", "contextual", "strong"}

InUnit(r) == RLeq(Zero, r) /\ RLeq(r, One)

WellFormed(g) ==
    \A trait \in Traits :
        /\ {trait, MetaKey(trait)} \subseteq DOMAIN g
        /\ IF trait = "cognitiveLoadThreshold" THEN InUnit(g[trait])
           ELSE g[trait] \in TraitDomain(trait)
        /\ InUnit(g[MetaKey(trait)].confidence)
        /\ g[MetaKey(trait)].sampleCount >= 0
        /\ g[MetaKey(trait)].state \in LearningState

C33_ImportedIsWellFormed ==
    (last.op = "import" /\ last.ret = TRUE) => WellFormed(genome)

(***************************************************************************)
(* C34.  Export then import is a round trip: from any reachable genome,    *)
(* importGenome(exportGenome()) returns true and leaves every trait        *)
(* value, every metadata record, every derived metric and the              *)
(* learningEnabled flag as they were.                                      *)
(***************************************************************************)
RoundTripKeys == Traits \cup MetaKeys \cup DerivedMetrics \cup {"learningEnabled"}

C36_NoReturnToObserving ==
    Cycled =>
        \A trait \in Traits :
            (BMeta(trait).sampleCount >= 10 /\ BMeta(trait).state # "observing")
                => AMeta(trait).state # "observing"

\* an adoption that leaves the confidence at 0.5 or less and the state as it was
C36_Witness ==
    /\ Cycled
    /\ \E trait \in Traits :
          /\ BMeta(trait).sampleCount >= 10
          /\ BMeta(trait).state \in {"tentative", "confident"}
          /\ AdoptCase(trait)
          /\ RLeq(AMeta(trait).confidence, <<1, 2>>)
          /\ AMeta(trait).state = BMeta(trait).state

(***************************************************************************)
(* Steady use: from the default genome, every cycle is given the same      *)
(* window.  The window of a behaviour is last.arg from the start, and the  *)
(* traits it is steady for are kept in last.ret.  The cycles keep coming,  *)
(* up to MaxSteadyCycles of them.  In these windows an estimator that      *)
(* answers at all reports at least CONFIDENCE_THRESHOLD: a weaker          *)
(* candidate multiplies the confidence by DECAY_FACTOR in every cycle, and *)
(* the exact value of 0.95^n leaves the integers after a few cycles.       *)
(***************************************************************************)
SteadyWindows ==
    << \* 1: sixty precise quick clicks
       Times(60, LAMBDA i : ClickSignal(20 * i, 1200, 0, 150)),
       \* 2: thirty reversing scrolls and thirty long hovers
       Times(30, LAMBDA i : ScrollSignal(500 * i, 3))
           \o Times(30, LAMBDA i : HoverSignal(500 * i + 1, 600)),
       \* 3: one hundred signals: reversing scrolls, long hovers, a jittery cursor
       Times(50, LAMBDA i : ScrollSignal(500 * i, 3))
           \o Times(42, LAMBDA i : HoverSignal(500 * i + 1, 600))
           \o Times(8, LAMBDA i : CursorSignal(500 * i + 2, 2, 25)),
       \* 4: every estimator answers, three of them at 0.6
       Times(30, LAMBDA i : ScrollSignal(500 * i, 3))
           \o Times(18, LAMBDA i : HoverSignal(500 * i + 1, 600))
           \o Times(24, LAMBDA i : ClickSignal(500 * i + 2, 400, 2, 450)),
       \* 5: twenty-four slow clicks between focus changes
       Times(24, LAMBDA i : ClickSignal(500 * i, 400, 2, 450))
           \o Times(36, LAMBDA i : FocusSignal(500 * i + 1)),
       \* 6: nine scrolls, below every estimator's floor
       Times(9, LAMBDA i : ScrollSignal(50 * i, 3)) >>

\* the traits for which a window's candidate has an observed confidence of at least 0.6
SteadyTraits(signals) ==
    {trait \in Traits :
        /\ Candidate(trait, signals) # <<>>
        /\ RLeq(<<3, 5>>, Candidate(trait, signals)[1].confidence)}

InitSteady ==
    /\ genome = DEFAULT_GENOME(Loaded)
    /\ now = Loaded
    /\ timers = <<>>
    /\ cycles = 0
    /\ external = 0
    /\ \E w \in DOMAIN SteadyWindows :
          last = [op |-> "init", trait |-> "", arg |-> w,
                  before |-> DEFAULT_GENOME(Loaded), at |-> Loaded,
                  ret |-> SteadyTraits(SteadyWindows[w])]
    /\ buffer = <<>>
    /\ emitted = 0
    /\ updateIntervalRef = 0
    /\ cycleTimers = {}
    /\ armed = 0
    /\ sent = <<>>
    /\ notified = <<>>
    /\ recent = <<>>
    /\ pauseEnded = FALSE

\* inference.inferTraits(genome, signals) followed by updateGenome(updates)
SteadyCycle ==
    /\ cycles < MaxSteadyCycles
    /\ genome' = updateGenome(genome, inferTraits(genome, SteadyWindows[last.arg], now), now)
    /\ cycles' = cycles + 1
    /\ last' = [Did("steady", "", last.arg) EXCEPT !.ret = last.ret]
    /\ UNCHANGED <<now, timers, external, captureVars>>

NextSteady == Tick \/ SteadyCycle

\* Cycles keep being delivered.  SteadyCycle is enabled exactly when fewer than
\* MaxSteadyCycles have run and it is the only step that advances the counter,
\* so the fairness condition is written on the counter.
CycleDelivered == cycles < MaxSteadyCycles /\ cycles' = cycles + 1

SpecSteady == InitSteady /\ [][NextSteady]_vars /\ WF_cycles(CycleDelivered)

(***************************************************************************)
(* C37.  Convergence: from the default genome, if every cycle delivers a   *)
(* window for which a trait's estimator gives the same candidate with an   *)
(* observed confidence of at least 0.6, then after finitely many cycles    *)
(* the trait's confidence is above 0.8 and its state is confident, and it  *)
(* stays so while such cycles go on.                                       *)
(***************************************************************************)
SteadyFor(trait) == trait \in last.ret

Settled(trait) ==
    /\ RLess(<<4, 5>>, genome[MetaKey(trait)].confidence)
    /\ genome[MetaKey(trait)].state = "confident"

C37_Convergence ==
    /\ \A trait \in Traits : SteadyFor(trait) ~> Settled(trait)
    /\ [][\A trait \in Traits : (SteadyFor(trait) /\ Settled(trait)) => Settled(trait)']_vars

\* settled on a value other than the default one, which the first cycle found unstable
C37_Witness ==
    /\ last.op = "steady"
    /\ \E trait \in Traits :
          /\ SteadyFor(trait)
          /\ Settled(trait)
          /\ genome[trait] # DEFAULT_GENOME(Loaded)[trait]
          /\ genome[MetaKey(trait)].sampleCount = cycles

(***************************************************************************)
(* C38.  lockTrait(t) changes only the state field of t's metadata, which  *)
(* becomes locked: t's value, the confidence, sampleCount and lastUpdated  *)
(* of its metadata, every other trait and its metadata, and every derived  *)
(* metric are as before.  With a name that has no metadata record, a       *)
(* derived metric for one, nothing changes.                                *)
(***************************************************************************)
Locked == last.op = "lock"

C38_LockChangesStateOnly ==
    Locked =>
        /\ DOMAIN genome = DOMAIN last.before
        /\ \A k \in DOMAIN genome \ {MetaKey(last.trait)} : genome[k] = last.before[k]
        /\ MetaKey(last.trait) \in DOMAIN last.before =>
              /\ DOMAIN genome[MetaKey(last.trait)] = DOMAIN last.before[MetaKey(last.trait)]
              /\ \A f \in DOMAIN genome[MetaKey(last.trait)] \ {"state"} :
                    genome[MetaKey(last.trait)][f] = last.before[MetaKey(last.trait)][f]
              /\ genome[MetaKey(last.trait)].state = "locked"
        /\ MetaKey(last.trait) \notin DOMAIN last.before => genome = last.before

\* a trait that has learned something is locked
C38_Witness ==
    /\ Locked
    /\ last.trait \in Traits
    /\ BMeta(last.trait).state \in {"observing", "tentative", "confident"}
    /\ BMeta(last.trait).sampleCount > 0
    /\ RLess(Zero, BMeta(last.trait).confidence)
    /\ RLess(BMeta(last.trait).confidence, One)
    /\ AMeta(last.trait).state = "locked"

====
